---- MODULE Spec2Model ----
(***************************************************************************)
(* Model of the Monopoly turn engine (GameEngine), its ownership ledger,   *)
(* rent calculator and card decks, driven by the turn orchestrator          *)
(* (GameLoop.run / executeTurn).  The engine's handlers are operators over *)
(* a GameState record; the orchestrator's loop is the next-state relation. *)
(*                                                                         *)
(* Representation: a nullable field (lastDiceRoll, activeTrade,            *)
(* pendingDebt) is the empty tuple for null and a tuple for a value; the   *)
(* winner is the string "null" or a player id.  The event log gameLog is   *)
(* append-only in the code; the model carries, with every ActionResult,    *)
(* the events the call appended to it (field logged) instead of the whole  *)
(* log, so that state = state' means an unchanged log as well.             *)
(***************************************************************************)
EXTENDS Integers, Sequences, FiniteSets, TLC

VARIABLES
    state,        \* GameLoop.state: the GameState the orchestrator holds
    actionCount,  \* executeTurn's counter of agent decisions in this turn
    pc,           \* the orchestrator's position: "run", "turn" or "done"
    lastStep,     \* history: what the last orchestrator step was
    steps,        \* exploration budget: agent decisions that succeeded
    rejects,      \* exploration budget: agent decisions the engine rejected
    doublesRun,   \* history: doubles the current player has rolled in a row this turn
    twin,         \* a second engine fed the same inputs, with both generators (NoTwin when there is none)
    history       \* a player's ctx.history when it is repaired (NoHistory in the specifications of the game, which leave the conversations out)

vars == <<state, actionCount, pc, lastStep, steps, rejects, doublesRun, twin, history>>

NoTwin == <<>>

NoHistory == <<>>

\* ------------------------------------------------------------ board data

BOARD_SPACES == <<
    [position |-> 0, type |-> "go"],
    [position |-> 1, type |-> "property", colorGroup |-> "brown", price |-> 60, mortgageValue |-> 30, houseCost |-> 50, rent |-> <<2, 10, 30, 90, 160, 250>>],
    [position |-> 2, type |-> "community_chest"],
    [position |-> 3, type |-> "property", colorGroup |-> "brown", price |-> 60, mortgageValue |-> 30, houseCost |-> 50, rent |-> <<4, 20, 60, 180, 320, 450>>],
    [position |-> 4, type |-> "tax", amount |-> 200],
    [position |-> 5, type |-> "railroad", price |-> 200, mortgageValue |-> 100],
    [position |-> 6, type |-> "property", colorGroup |-> "light_blue", price |-> 100, mortgageValue |-> 50, houseCost |-> 50, rent |-> <<6, 30, 90, 270, 400, 550>>],
    [position |-> 7, type |-> "chance"],
    [position |-> 8, type |-> "property", colorGroup |-> "light_blue", price |-> 100, mortgageValue |-> 50, houseCost |-> 50, rent |-> <<6, 30, 90, 270, 400, 550>>],
    [position |-> 9, type |-> "property", colorGroup |-> "light_blue", price |-> 120, mortgageValue |-> 60, houseCost |-> 50, rent |-> <<8, 40, 100, 300, 450, 600>>],
    [position |-> 10, type |-> "jail"],
    [position |-> 11, type |-> "property", colorGroup |-> "pink", price |-> 140, mortgageValue |-> 70, houseCost |-> 100, rent |-> <<10, 50, 150, 450, 625, 750>>],
    [position |-> 12, type |-> "utility", price |-> 150, mortgageValue |-> 75],
    [position |-> 13, type |-> "property", colorGroup |-> "pink", price |-> 140, mortgageValue |-> 70, houseCost |-> 100, rent |-> <<10, 50, 150, 450, 625, 750>>],
    [position |-> 14, type |-> "property", colorGroup |-> "pink", price |-> 160, mortgageValue |-> 80, houseCost |-> 100, rent |-> <<12, 60, 180, 500, 700, 900>>],
    [position |-> 15, type |-> "railroad", price |-> 200, mortgageValue |-> 100],
    [position |-> 16, type |-> "property", colorGroup |-> "orange", price |-> 180, mortgageValue |-> 90, houseCost |-> 100, rent |-> <<14, 70, 200, 550, 750, 950>>],
    [position |-> 17, type |-> "community_chest"],
    [position |-> 18, type |-> "property", colorGroup |-> "orange", price |-> 180, mortgageValue |-> 90, houseCost |-> 100, rent |-> <<14, 70, 200, 550, 750, 950>>],
    [position |-> 19, type |-> "property", colorGroup |-> "orange", price |-> 200, mortgageValue |-> 100, houseCost |-> 100, rent |-> <<16, 80, 220, 600, 800, 1000>>],
    [position |-> 20, type |-> "free_parking"],
    [position |-> 21, type |-> "property", colorGroup |-> "red", price |-> 220, mortgageValue |-> 110, houseCost |-> 150, rent |-> <<18, 90, 250, 700, 875, 1050>>],
    [position |-> 22, type |-> "chance"],
    [position |-> 23, type |-> "property", colorGroup |-> "red", price |-> 220, mortgageValue |-> 110, houseCost |-> 150, rent |-> <<18, 90, 250, 700, 875, 1050>>],
    [position |-> 24, type |-> "property", colorGroup |-> "red", price |-> 240, mortgageValue |-> 120, houseCost |-> 150, rent |-> <<20, 100, 300, 750, 925, 1100>>],
    [position |-> 25, type |-> "railroad", price |-> 200, mortgageValue |-> 100],
    [position |-> 26, type |-> "property", colorGroup |-> "yellow", price |-> 260, mortgageValue |-> 130, houseCost |-> 150, rent |-> <<22, 110, 330, 800, 975, 1150>>],
    [position |-> 27, type |-> "property", colorGroup |-> "yellow", price |-> 260, mortgageValue |-> 130, houseCost |-> 150, rent |-> <<22, 110, 330, 800, 975, 1150>>],
    [position |-> 28, type |-> "utility", price |-> 150, mortgageValue |-> 75],
    [position |-> 29, type |-> "property", colorGroup |-> "yellow", price |-> 280, mortgageValue |-> 140, houseCost |-> 150, rent |-> <<24, 120, 360, 850, 1025, 1200>>],
    [position |-> 30, type |-> "go_to_jail"],
    [position |-> 31, type |-> "property", colorGroup |-> "green", price |-> 300, mortgageValue |-> 150, houseCost |-> 200, rent |-> <<26, 130, 390, 900, 1100, 1275>>],
    [position |-> 32, type |-> "property", colorGroup |-> "green", price |-> 300, mortgageValue |-> 150, houseCost |-> 200, rent |-> <<26, 130, 390, 900, 1100, 1275>>],
    [position |-> 33, type |-> "community_chest"],
    [position |-> 34, type |-> "property", colorGroup |-> "green", price |-> 320, mortgageValue |-> 160, houseCost |-> 200, rent |-> <<28, 150, 450, 1000, 1200, 1400>>],
    [position |-> 35, type |-> "railroad", price |-> 200, mortgageValue |-> 100],
    [position |-> 36, type |-> "chance"],
    [position |-> 37, type |-> "property", colorGroup |-> "dark_blue", price |-> 350, mortgageValue |-> 175, houseCost |-> 200, rent |-> <<35, 175, 500, 1100, 1300, 1500>>],
    [position |-> 38, type |-> "tax", amount |-> 100],
    [position |-> 39, type |-> "property", colorGroup |-> "dark_blue", price |-> 400, mortgageValue |-> 200, houseCost |-> 200, rent |-> <<50, 200, 600, 1400, 1700, 2000>>]
>>

COLOR_GROUP_MEMBERS ==
    [brown |-> {1, 3}, light_blue |-> {6, 8, 9}, pink |-> {11, 13, 14},
     orange |-> {16, 18, 19}, red |-> {21, 23, 24}, yellow |-> {26, 27, 29},
     green |-> {31, 32, 34}, dark_blue |-> {37, 39}]

RAILROAD_POSITIONS == <<5, 15, 25, 35>>

UTILITY_POSITIONS == <<12, 28>>

getSpace(position) == BOARD_SPACES[position + 1]

isOwnableSpace(space) == space.type \in {"property", "railroad", "utility"}

\* ------------------------------------------------------------ helpers

SetMin(S) == CHOOSE x \in S : \A y \in S : x <= y

SetMax(S) == CHOOSE x \in S : \A y \in S : x >= y

RECURSIVE SumOver(_, _)
SumOver(f, S) ==
    IF S = {} THEN 0
    ELSE LET x == CHOOSE y \in S : TRUE IN f[x] + SumOver(f, S \ {x})

PlayerIdx(s) == DOMAIN s.players

\* A PropertyState read through a missing Map entry: {...undefined} is {},
\* whose houses field is undefined; -1 stands for that value.
UndefinedHouses == 0 - 1

UndefinedPropertyState == [houses |-> UndefinedHouses, mortgaged |-> FALSE]

NewPropertyState == [houses |-> 0, mortgaged |-> FALSE]

\* Map.set / Map.delete on a player's properties
MapSet(props, pos, ps) ==
    [p \in DOMAIN props \cup {pos} |-> IF p = pos THEN ps ELSE props[p]]

MapDelete(props, positions) == [p \in DOMAIN props \ positions |-> props[p]]

\* ------------------------------------------------------------ bank.ts

getActivePlayers(s) == {i \in PlayerIdx(s) : ~s.players[i].isBankrupt}

\* index of the first non-bankrupt player holding the position, or 0 for null
getPropertyOwner(s, position) ==
    LET holders == {i \in PlayerIdx(s) :
                       /\ ~s.players[i].isBankrupt
                       /\ position \in DOMAIN s.players[i].properties}
    IN IF holders = {} THEN 0 ELSE SetMin(holders)

isPropertyOwned(s, position) == getPropertyOwner(s, position) # 0

\* index of the player with the id, or 0 when find() returns undefined
FindPlayer(s, playerId) ==
    LET found == {i \in PlayerIdx(s) : s.players[i].id = playerId}
    IN IF found = {} THEN 0 ELSE SetMin(found)

playerOwnsColorGroup(s, i, positions) ==
    \A pos \in positions : pos \in DOMAIN s.players[i].properties

\* countPlayerRailroads counting the mortgaged railroads too.
countPlayerRailroads_WithMortgaged(s, i) ==
    Cardinality({pos \in DOMAIN s.players[i].properties :
                    getSpace(pos).type = "railroad"})

countPlayerRailroads(s, i) ==
    Cardinality({pos \in DOMAIN s.players[i].properties :
                    /\ getSpace(pos).type = "railroad"
                    /\ ~s.players[i].properties[pos].mortgaged})

countPlayerUtilities(s, i) ==
    Cardinality({pos \in DOMAIN s.players[i].properties :
                    /\ getSpace(pos).type = "utility"
                    /\ ~s.players[i].properties[pos].mortgaged})

countHousesAndHotels(s, i) ==
    LET props == s.players[i].properties
        hotelAt == {pos \in DOMAIN props : props[pos].houses = 5}
        houseCount == [pos \in DOMAIN props |-> props[pos].houses]
    IN [houses |-> SumOver(houseCount, DOMAIN props \ hotelAt),
        hotels |-> Cardinality(hotelAt)]

\* ------------------------------------------------------------ rent-calculator.ts

RECURSIVE Pow2(_)
Pow2(n) == IF n <= 0 THEN 1 ELSE 2 * Pow2(n - 1)

calculatePropertyRent(s, space, houses, owner) ==
    IF houses > 0 THEN space.rent[houses + 1]
    ELSE IF playerOwnsColorGroup(s, owner, COLOR_GROUP_MEMBERS[space.colorGroup])
         THEN space.rent[1] * 2
         ELSE space.rent[1]

\* multiplier 0 stands for an absent cardMultiplier
calculateRailroadRent(s, owner, multiplier) ==
    LET count == countPlayerRailroads(s, owner)
        baseRent == 25 * Pow2(count - 1)
    IN baseRent * (IF multiplier = 0 THEN 1 ELSE multiplier)

calculateUtilityRent(s, owner, diceRoll, multiplier) ==
    LET diceSum == diceRoll[1] + diceRoll[2]
        count == countPlayerUtilities(s, owner)
    IN IF multiplier # 0 THEN diceSum * multiplier
       ELSE IF count = 1 THEN diceSum * 4
       ELSE IF count >= 2 THEN diceSum * 10
       ELSE 0

calculateRent(s, position, diceRoll, cardMultiplier) ==
    LET space == getSpace(position)
        owner == getPropertyOwner(s, position)
    IN IF owner = 0 THEN 0
       ELSE LET propState == s.players[owner].properties[position]
            IN IF propState.mortgaged THEN 0
               ELSE IF space.type = "property"
                    THEN calculatePropertyRent(s, space, propState.houses, owner)
               ELSE IF space.type = "railroad"
                    THEN calculateRailroadRent(s, owner, cardMultiplier)
               ELSE IF space.type = "utility"
                    THEN calculateUtilityRent(s, owner, diceRoll, cardMultiplier)
               ELSE 0

\* ------------------------------------------------------------ cards.ts

CHANCE_CARDS == <<
    [type |-> "move_to", position |-> 39, collectGo |-> TRUE],
    [type |-> "move_to", position |-> 0, collectGo |-> TRUE],
    [type |-> "move_to", position |-> 24, collectGo |-> TRUE],
    [type |-> "move_to", position |-> 11, collectGo |-> TRUE],
    [type |-> "move_to_nearest", spaceType |-> "railroad", payMultiplier |-> 2],
    [type |-> "move_to_nearest", spaceType |-> "railroad", payMultiplier |-> 2],
    [type |-> "move_to_nearest", spaceType |-> "utility", payMultiplier |-> 10],
    [type |-> "collect", amount |-> 50],
    [type |-> "get_out_of_jail_free"],
    [type |-> "move_back", spaces |-> 3],
    [type |-> "go_to_jail"],
    [type |-> "pay_per_house", houseAmount |-> 25, hotelAmount |-> 100],
    [type |-> "pay", amount |-> 15],
    [type |-> "move_to", position |-> 5, collectGo |-> TRUE],
    [type |-> "pay_each_player", amount |-> 50],
    [type |-> "collect", amount |-> 150]
>>

COMMUNITY_CHEST_CARDS == <<
    [type |-> "move_to", position |-> 0, collectGo |-> TRUE],
    [type |-> "collect", amount |-> 200],
    [type |-> "pay", amount |-> 50],
    [type |-> "collect", amount |-> 50],
    [type |-> "get_out_of_jail_free"],
    [type |-> "go_to_jail"],
    [type |-> "collect", amount |-> 100],
    [type |-> "collect", amount |-> 20],
    [type |-> "collect_from_each_player", amount |-> 10],
    [type |-> "collect", amount |-> 100],
    [type |-> "pay", amount |-> 100],
    [type |-> "pay", amount |-> 50],
    [type |-> "collect", amount |-> 25],
    [type |-> "pay_per_house", houseAmount |-> 40, hotelAmount |-> 115],
    [type |-> "collect", amount |-> 10],
    [type |-> "collect", amount |-> 100]
>>

\* A reshuffle that loses the last card of the pile.
Reshuffle_DropsLast(pile, shuffle) ==
    SubSeq(pile, 1, Len(pile) - 1)

\* The Fisher-Yates shuffle of the discard pile, driven by the rng: the rng's
\* draws are an input, here the number of places the pile is rotated by.
Reshuffle(pile, shuffle) ==
    LET n == Len(pile)
    IN [i \in 1..n |-> pile[((i - 1 + shuffle) % n) + 1]]

\* cards: the deck's card table; the result's card is the drawn card's effect
drawCard(deck, discardPile, cards, shuffle) ==
    LET refill == Len(deck) = 0
        currentDeck == IF refill THEN Reshuffle(discardPile, shuffle) ELSE deck
        currentDiscard == IF refill THEN <<>> ELSE discardPile
        cardIndex == Head(currentDeck)
        card == cards[cardIndex + 1]
    IN [card |-> card,
        newDeck |-> Tail(currentDeck),
        newDiscardPile |-> IF card.type # "get_out_of_jail_free"
                           THEN Append(currentDiscard, cardIndex)
                           ELSE currentDiscard]

\* ------------------------------------------------------------ game-engine.ts

cloneState(s) ==
    [s EXCEPT !.players =
        [i \in DOMAIN s.players |->
            [s.players[i] EXCEPT !.properties =
                [pos \in DOMAIN s.players[i].properties |->
                    [houses |-> s.players[i].properties[pos].houses,
                     mortgaged |-> s.players[i].properties[pos].mortgaged]]]]]

\* The objects of a GameState that a shallow copy {...state} allocates.
ClonedContainers_Shallow == {"GameState"}

\* The objects of the copy that cloneState allocates afresh; every other
\* object of the graph (the two position arrays of the TradeOffer, the
\* GameEvent objects of the log) is shared with the state it was given.
ClonedContainers ==
    {"GameState", "players", "PlayerState", "properties", "PropertyState",
     "lastDiceRoll", "chanceDeck", "communityChestDeck", "chanceDiscardPile",
     "communityChestDiscardPile", "activeTrade", "pendingDebt", "gameLog"}

\* ActionResult.  logged: the events the call pushed onto newState.gameLog.
Success(s, events) ==
    [success |-> TRUE, newState |-> s, events |-> events, logged |-> events]

Rejected(s) ==
    [success |-> FALSE, newState |-> s, events |-> <<>>, logged |-> <<>>]

Cur(s) == s.currentPlayerIndex

CurPlayer(s) == s.players[s.currentPlayerIndex]

IsDoubles(roll) == roll[1] = roll[2]

\* movePlayer, movePlayerToPosition, sendToJail: [st, ev] is the state and the
\* events pushed
movePlayer(s, i, spaces) ==
    LET from == s.players[i].position
        to == (from + spaces) % 40
        passedGo == to < from /\ spaces > 0
        bal == s.players[i].balance + (IF passedGo THEN 200 ELSE 0)
    IN [st |-> [s EXCEPT !.players[i].position = to, !.players[i].balance = bal],
        ev |-> (IF passedGo
                THEN <<[type |-> "pass_go", playerId |-> s.players[i].id, collected |-> 200]>>
                ELSE <<>>)
               \o <<[type |-> "move", playerId |-> s.players[i].id, from |-> from,
                     to |-> to, passedGo |-> passedGo]>>]

\* movePlayerToPosition putting the player on the first Chance space.
movePlayerToPosition_ToChance(s, i, position, collectGo) ==
    [st |-> [s EXCEPT !.players[i].position = 7],
     ev |-> <<[type |-> "move", playerId |-> s.players[i].id,
               from |-> s.players[i].position, to |-> 7, passedGo |-> FALSE]>>]

movePlayerToPosition(s, i, position, collectGo) ==
    LET from == s.players[i].position
        passedGo == collectGo /\ position < from /\ position # from
        bal == s.players[i].balance + (IF passedGo THEN 200 ELSE 0)
    IN [st |-> [s EXCEPT !.players[i].position = position, !.players[i].balance = bal],
        ev |-> (IF passedGo
                THEN <<[type |-> "pass_go", playerId |-> s.players[i].id, collected |-> 200]>>
                ELSE <<>>)
               \o <<[type |-> "move", playerId |-> s.players[i].id, from |-> from,
                     to |-> position, passedGo |-> passedGo]>>]

sendToJail(s, i) ==
    [st |-> [s EXCEPT !.players[i].position = 10,
                      !.players[i].inJail = TRUE,
                      !.players[i].jailTurns = 0,
                      !.players[i].doublesCount = 0],
     ev |-> <<[type |-> "go_to_jail", playerId |-> s.players[i].id]>>]

Debt(creditor, amount) == <<[creditor |-> creditor, amount |-> amount]>>

\* the phase and the debt a charge leaves behind (if balance < 0 ... else ...)
\* AfterCharge that never opens a debt.
AfterCharge_NeverDebt(s, i, creditor) ==
    [s EXCEPT !.turnPhase = "post_action"]

AfterCharge(s, i, creditor) ==
    IF s.players[i].balance < 0
    THEN [s EXCEPT !.pendingDebt = Debt(creditor, 0 - s.players[i].balance),
                   !.turnPhase = "paying_debt"]
    ELSE [s EXCEPT !.turnPhase = "post_action"]

\* handleRollDice in jail with the forced release one failure later.
handleRollDiceInJail_FourthFailure(s, roll) ==
    LET i == Cur(s)
        s1 == [s EXCEPT !.lastDiceRoll = roll]
    IN IF IsDoubles(roll) \/ s1.players[i].jailTurns + 1 >= 4
       THEN LET s2 == [s1 EXCEPT !.players[i].balance =
                                     IF IsDoubles(roll) THEN @ ELSE @ - 50,
                                 !.players[i].inJail = FALSE,
                                 !.players[i].jailTurns = 0]
                m == movePlayer(s2, i, roll[1] + roll[2])
            IN Success([m.st EXCEPT !.turnPhase = "post_roll_land"], m.ev)
       ELSE Success([s1 EXCEPT !.players[i].jailTurns = @ + 1,
                               !.turnPhase = "post_action"], <<>>)

handleRollDiceInJail(s, roll) ==
    LET i == Cur(s)
        id == s.players[i].id
        s1 == [s EXCEPT !.lastDiceRoll = roll]
        rolled == <<[type |-> "roll_dice", playerId |-> id, dice |-> roll,
                     doubles |-> IsDoubles(roll)]>>
    IN IF IsDoubles(roll)
       THEN LET s2 == [s1 EXCEPT !.players[i].inJail = FALSE, !.players[i].jailTurns = 0]
                m == movePlayer(s2, i, roll[1] + roll[2])
            IN Success([m.st EXCEPT !.turnPhase = "post_roll_land"],
                       rolled \o <<[type |-> "get_out_of_jail", playerId |-> id]>> \o m.ev)
       ELSE IF s1.players[i].jailTurns + 1 >= 3
       THEN LET s2 == [s1 EXCEPT !.players[i].balance = @ - 50,
                                 !.players[i].inJail = FALSE,
                                 !.players[i].jailTurns = 0]
                m == movePlayer(s2, i, roll[1] + roll[2])
                s3 == [m.st EXCEPT !.turnPhase = "post_roll_land"]
                s4 == IF s3.players[i].balance < 0
                      THEN [s3 EXCEPT !.pendingDebt = Debt("bank", 0 - s3.players[i].balance),
                                      !.turnPhase = "paying_debt"]
                      ELSE s3
            IN Success(s4, rolled \o <<[type |-> "get_out_of_jail", playerId |-> id],
                                      [type |-> "pay", playerId |-> id, amount |-> 50]>>
                                  \o m.ev)
       ELSE Success([s1 EXCEPT !.players[i].jailTurns = @ + 1,
                               !.turnPhase = "post_action"], rolled)

handleRollDiceNormal(s, roll) ==
    LET i == Cur(s)
        id == s.players[i].id
        s1 == [s EXCEPT !.lastDiceRoll = roll]
        rolled == <<[type |-> "roll_dice", playerId |-> id, dice |-> roll,
                     doubles |-> IsDoubles(roll)]>>
        s2 == IF IsDoubles(roll) THEN [s1 EXCEPT !.players[i].doublesCount = @ + 1] ELSE s1
    IN IF IsDoubles(roll) /\ s2.players[i].doublesCount >= 3
       THEN LET j == sendToJail(s2, i)
            IN Success([j.st EXCEPT !.turnPhase = "post_action"], rolled \o j.ev)
       ELSE LET m == movePlayer(s2, i, roll[1] + roll[2])
            IN Success([m.st EXCEPT !.turnPhase = "post_roll_land"], rolled \o m.ev)

handleRollDice(s, roll) ==
    IF CurPlayer(s).inJail THEN handleRollDiceInJail(s, roll)
    ELSE handleRollDiceNormal(s, roll)

\* handleBuyProperty without the price leaving the buyer's balance.
handleBuyProperty_NoCharge(s) ==
    LET i == Cur(s)
        player == s.players[i]
        space == getSpace(player.position)
    IN IF ~isOwnableSpace(space) THEN Rejected(s)
       ELSE IF isPropertyOwned(s, player.position) THEN Rejected(s)
       ELSE IF player.balance < space.price THEN Rejected(s)
       ELSE Success([s EXCEPT !.players[i].properties =
                                  MapSet(@, player.position, NewPropertyState),
                              !.turnPhase = "post_action"],
                    <<[type |-> "buy_property", playerId |-> player.id,
                       price |-> space.price, position |-> player.position]>>)

handleBuyProperty(s) ==
    LET i == Cur(s)
        player == s.players[i]
        space == getSpace(player.position)
    IN IF ~isOwnableSpace(space) THEN Rejected(s)
       ELSE IF isPropertyOwned(s, player.position) THEN Rejected(s)
       ELSE IF player.balance < space.price THEN Rejected(s)
       ELSE Success([s EXCEPT !.players[i].balance = @ - space.price,
                              !.players[i].properties =
                                  MapSet(@, player.position, NewPropertyState),
                              !.turnPhase = "post_action"],
                    <<[type |-> "buy_property", playerId |-> player.id,
                       price |-> space.price, position |-> player.position]>>)

handleAuctionProperty(s) ==
    LET player == CurPlayer(s)
        space == getSpace(player.position)
    IN IF ~isOwnableSpace(space) THEN Rejected(s)
       ELSE Success([s EXCEPT !.turnPhase = "auction"],
                    <<[type |-> "auction_start", position |-> player.position]>>)

handleSubmitBid(s, amount) ==
    LET player == CurPlayer(s)
    IN IF amount < 0 THEN Rejected(s)
       ELSE IF amount > player.balance THEN Rejected(s)
       ELSE Success(s, <<[type |-> "auction_bid", playerId |-> player.id,
                          amount |-> amount]>>)

\* bids: player index -> amount (bids.get(player.id) ?? 0)
\* AuctionWinner with the bids of bankrupt players taking part.
RECURSIVE AuctionWinner_BankruptBids(_, _, _, _, _)
AuctionWinner_BankruptBids(s, bids, i, highestBid, winner) ==
    IF i > Len(s.players) THEN [highestBid |-> highestBid, winner |-> winner]
    ELSE IF i \in DOMAIN bids /\ bids[i] > highestBid
         THEN AuctionWinner_BankruptBids(s, bids, i + 1, bids[i], i)
         ELSE AuctionWinner_BankruptBids(s, bids, i + 1, highestBid, winner)

RECURSIVE AuctionWinner(_, _, _, _, _)
AuctionWinner(s, bids, i, highestBid, winner) ==
    IF i > Len(s.players) THEN [highestBid |-> highestBid, winner |-> winner]
    ELSE IF ~s.players[i].isBankrupt /\ bids[i] > highestBid
         THEN AuctionWinner(s, bids, i + 1, bids[i], i)
         ELSE AuctionWinner(s, bids, i + 1, highestBid, winner)

resolveAuction(state0, bids, position) ==
    LET s == cloneState(state0)
        w == AuctionWinner(s, bids, 1, 0, 0)
    IN IF w.winner # 0 /\ w.highestBid > 0
       THEN Success([s EXCEPT !.players[w.winner].balance = @ - w.highestBid,
                              !.players[w.winner].properties =
                                  MapSet(@, position, NewPropertyState),
                              !.turnPhase = "post_action"],
                    <<[type |-> "auction_won", playerId |-> s.players[w.winner].id,
                       price |-> w.highestBid]>>)
       ELSE Success([s EXCEPT !.turnPhase = "post_action"],
                    <<[type |-> "auction_no_bids"]>>)

GroupHouses(player, groupPositions) ==
    {player.properties[p].houses : p \in groupPositions}

\* handleBuildHouse without the even-building rule.
handleBuildHouse_Uneven(s, position) ==
    LET i == Cur(s)
        player == s.players[i]
        space == getSpace(position)
    IN IF space.type # "property" THEN Rejected(s)
       ELSE IF position \notin DOMAIN player.properties THEN Rejected(s)
       ELSE IF player.properties[position].mortgaged THEN Rejected(s)
       ELSE LET groupPositions == COLOR_GROUP_MEMBERS[space.colorGroup]
                propState == player.properties[position]
            IN IF ~playerOwnsColorGroup(s, i, groupPositions) THEN Rejected(s)
               ELSE IF \E gp \in groupPositions : player.properties[gp].mortgaged
                    THEN Rejected(s)
               ELSE IF propState.houses >= 4 THEN Rejected(s)
               ELSE IF s.bankHouses <= 0 THEN Rejected(s)
               ELSE IF player.balance < space.houseCost THEN Rejected(s)
               ELSE Success([s EXCEPT !.players[i].balance = @ - space.houseCost,
                                      !.players[i].properties[position].houses = @ + 1,
                                      !.bankHouses = @ - 1],
                            <<[type |-> "build_house", playerId |-> player.id,
                               position |-> position,
                               houses |-> propState.houses + 1]>>)

\* handleBuildHouse without the house leaving the bank's supply.
handleBuildHouse_KeepSupply(s, position) ==
    LET i == Cur(s)
        player == s.players[i]
        space == getSpace(position)
    IN IF space.type # "property" THEN Rejected(s)
       ELSE IF position \notin DOMAIN player.properties THEN Rejected(s)
       ELSE IF player.properties[position].mortgaged THEN Rejected(s)
       ELSE LET groupPositions == COLOR_GROUP_MEMBERS[space.colorGroup]
                propState == player.properties[position]
            IN IF ~playerOwnsColorGroup(s, i, groupPositions) THEN Rejected(s)
               ELSE IF \E gp \in groupPositions : player.properties[gp].mortgaged
                    THEN Rejected(s)
               ELSE IF propState.houses >= 4 THEN Rejected(s)
               ELSE IF propState.houses > SetMin(GroupHouses(player, groupPositions))
                    THEN Rejected(s)
               ELSE IF s.bankHouses <= 0 THEN Rejected(s)
               ELSE IF player.balance < space.houseCost THEN Rejected(s)
               ELSE Success([s EXCEPT !.players[i].balance = @ - space.houseCost,
                                      !.players[i].properties[position].houses = @ + 1],
                            <<[type |-> "build_house", playerId |-> player.id,
                               position |-> position,
                               houses |-> propState.houses + 1]>>)

handleBuildHouse(s, position) ==
    LET i == Cur(s)
        player == s.players[i]
        space == getSpace(position)
    IN IF space.type # "property" THEN Rejected(s)
       ELSE IF position \notin DOMAIN player.properties THEN Rejected(s)
       ELSE IF player.properties[position].mortgaged THEN Rejected(s)
       ELSE LET groupPositions == COLOR_GROUP_MEMBERS[space.colorGroup]
                propState == player.properties[position]
            IN IF ~playerOwnsColorGroup(s, i, groupPositions) THEN Rejected(s)
               ELSE IF \E gp \in groupPositions : player.properties[gp].mortgaged
                    THEN Rejected(s)
               ELSE IF propState.houses >= 4 THEN Rejected(s)
               ELSE IF propState.houses > SetMin(GroupHouses(player, groupPositions))
                    THEN Rejected(s)
               ELSE IF s.bankHouses <= 0 THEN Rejected(s)
               ELSE IF player.balance < space.houseCost THEN Rejected(s)
               ELSE Success([s EXCEPT !.players[i].balance = @ - space.houseCost,
                                      !.players[i].properties[position].houses = @ + 1,
                                      !.bankHouses = @ - 1],
                            <<[type |-> "build_house", playerId |-> player.id,
                               position |-> position,
                               houses |-> propState.houses + 1]>>)

handleBuildHotel(s, position) ==
    LET i == Cur(s)
        player == s.players[i]
        space == getSpace(position)
    IN IF space.type # "property" THEN Rejected(s)
       ELSE IF position \notin DOMAIN player.properties THEN Rejected(s)
       ELSE IF player.properties[position].houses # 4 THEN Rejected(s)
       ELSE IF s.bankHotels <= 0 THEN Rejected(s)
       ELSE IF player.balance < space.houseCost THEN Rejected(s)
       ELSE Success([s EXCEPT !.players[i].balance = @ - space.houseCost,
                              !.players[i].properties[position].houses = 5,
                              !.bankHotels = @ - 1,
                              !.bankHouses = @ + 4],
                    <<[type |-> "build_hotel", playerId |-> player.id,
                       position |-> position]>>)

\* handleSellHouse turning a hotel into four houses whatever the bank holds.
handleSellHouse_AlwaysDowngrade(s, position, orig) ==
    LET i == Cur(s)
        player == s.players[i]
        space == getSpace(position)
    IN IF space.type # "property" THEN Rejected(s)
       ELSE IF position \notin DOMAIN player.properties THEN Rejected(s)
       ELSE IF player.properties[position].houses = 0 THEN Rejected(s)
       ELSE LET groupPositions == COLOR_GROUP_MEMBERS[space.colorGroup]
                propState == player.properties[position]
                refund == space.houseCost \div 2
                sold(h) == <<[type |-> "sell_house", playerId |-> player.id,
                              position |-> position, houses |-> h]>>
            IN IF propState.houses = 5
               THEN Success([s EXCEPT !.players[i].properties[position].houses = 4,
                                      !.bankHotels = @ + 1,
                                      !.bankHouses = @ - 4,
                                      !.players[i].balance = @ + refund],
                            sold(4))
               ELSE IF ~playerOwnsColorGroup(s, i, groupPositions) THEN Rejected(orig)
               ELSE IF propState.houses < SetMax(GroupHouses(player, groupPositions))
                    THEN Rejected(s)
               ELSE Success([s EXCEPT !.players[i].properties[position].houses = @ - 1,
                                      !.bankHouses = @ + 1,
                                      !.players[i].balance = @ + refund],
                            sold(propState.houses - 1))

\* orig: the state applyAction was called with, returned by its catch block
\* when the handler throws (reading .houses of a group member the player does
\* not hold)
handleSellHouse(s, position, orig) ==
    LET i == Cur(s)
        player == s.players[i]
        space == getSpace(position)
    IN IF space.type # "property" THEN Rejected(s)
       ELSE IF position \notin DOMAIN player.properties THEN Rejected(s)
       ELSE IF player.properties[position].houses = 0 THEN Rejected(s)
       ELSE LET groupPositions == COLOR_GROUP_MEMBERS[space.colorGroup]
                propState == player.properties[position]
                refund == space.houseCost \div 2
                sold(h) == <<[type |-> "sell_house", playerId |-> player.id,
                              position |-> position, houses |-> h]>>
            IN IF propState.houses = 5
               THEN IF s.bankHouses >= 4
                    THEN Success([s EXCEPT !.players[i].properties[position].houses = 4,
                                           !.bankHotels = @ + 1,
                                           !.bankHouses = @ - 4,
                                           !.players[i].balance = @ + refund],
                                 sold(4))
                    ELSE Success([s EXCEPT !.players[i].properties[position].houses = 0,
                                           !.bankHotels = @ + 1,
                                           !.players[i].balance = @ + refund],
                                 sold(0))
               ELSE IF ~playerOwnsColorGroup(s, i, groupPositions) THEN Rejected(orig)
               ELSE IF propState.houses < SetMax(GroupHouses(player, groupPositions))
                    THEN Rejected(s)
               ELSE Success([s EXCEPT !.players[i].properties[position].houses = @ - 1,
                                      !.bankHouses = @ + 1,
                                      !.players[i].balance = @ + refund],
                            sold(propState.houses - 1))

\* handleMortgage without the check that the pending debt is resolved.
handleMortgage_KeepsDebt(s, position) ==
    LET i == Cur(s)
        player == s.players[i]
        space == getSpace(position)
    IN IF ~isOwnableSpace(space) THEN Rejected(s)
       ELSE IF position \notin DOMAIN player.properties THEN Rejected(s)
       ELSE IF player.properties[position].mortgaged THEN Rejected(s)
       ELSE IF /\ space.type = "property"
               /\ \E gp \in COLOR_GROUP_MEMBERS[space.colorGroup] :
                      /\ gp \in DOMAIN player.properties
                      /\ player.properties[gp].houses > 0
            THEN Rejected(s)
       ELSE Success([s EXCEPT !.players[i].properties[position].mortgaged = TRUE,
                              !.players[i].balance = @ + space.mortgageValue],
                    <<[type |-> "mortgage", playerId |-> player.id,
                       position |-> position,
                       received |-> space.mortgageValue]>>)

handleMortgage(s, position) ==
    LET i == Cur(s)
        player == s.players[i]
        space == getSpace(position)
    IN IF ~isOwnableSpace(space) THEN Rejected(s)
       ELSE IF position \notin DOMAIN player.properties THEN Rejected(s)
       ELSE IF player.properties[position].mortgaged THEN Rejected(s)
       ELSE IF /\ space.type = "property"
               /\ \E gp \in COLOR_GROUP_MEMBERS[space.colorGroup] :
                      /\ gp \in DOMAIN player.properties
                      /\ player.properties[gp].houses > 0
            THEN Rejected(s)
       ELSE LET s1 == [s EXCEPT !.players[i].properties[position].mortgaged = TRUE,
                                !.players[i].balance = @ + space.mortgageValue]
                s2 == IF s1.pendingDebt # <<>> /\ s1.players[i].balance >= 0
                      THEN [s1 EXCEPT !.pendingDebt = <<>>, !.turnPhase = "post_action"]
                      ELSE s1
            IN Success(s2, <<[type |-> "mortgage", playerId |-> player.id,
                              position |-> position,
                              received |-> space.mortgageValue]>>)

\* Math.floor(mortgageValue * 1.1)
UnmortgageCost(space) == (space.mortgageValue * 11) \div 10

handleUnmortgage(s, position) ==
    LET i == Cur(s)
        player == s.players[i]
        space == getSpace(position)
    IN IF ~isOwnableSpace(space) THEN Rejected(s)
       ELSE IF position \notin DOMAIN player.properties THEN Rejected(s)
       ELSE IF ~player.properties[position].mortgaged THEN Rejected(s)
       ELSE IF player.balance < UnmortgageCost(space) THEN Rejected(s)
       ELSE Success([s EXCEPT !.players[i].properties[position].mortgaged = FALSE,
                              !.players[i].balance = @ - UnmortgageCost(space)],
                    <<[type |-> "unmortgage", playerId |-> player.id,
                       position |-> position, cost |-> UnmortgageCost(space)]>>)

handleTradeOffer(s, offer) ==
    LET i == Cur(s)
        player == s.players[i]
        t == FindPlayer(s, offer.toPlayerId)
    IN IF offer.fromPlayerId # player.id THEN Rejected(s)
       ELSE IF t = 0 THEN Rejected(s)
       ELSE IF s.players[t].isBankrupt THEN Rejected(s)
       ELSE IF \E pos \in offer.offeredProperties :
                   \/ pos \notin DOMAIN player.properties
                   \/ player.properties[pos].houses > 0
            THEN Rejected(s)
       ELSE IF \E pos \in offer.requestedProperties :
                   \/ pos \notin DOMAIN s.players[t].properties
                   \/ s.players[t].properties[pos].houses > 0
            THEN Rejected(s)
       ELSE IF offer.offeredMoney > player.balance THEN Rejected(s)
       ELSE IF offer.requestedMoney > s.players[t].balance THEN Rejected(s)
       ELSE Success([s EXCEPT !.activeTrade = <<offer>>, !.turnPhase = "trading"], <<>>)

\* the two transfer loops of handleAcceptTrade: every position leaves the giver
\* and is set on the taker with a copy of the giver's PropertyState
TransferProperties(players, giver, taker, positions) ==
    LET given == [pos \in positions |->
                     IF pos \in DOMAIN players[giver].properties
                     THEN players[giver].properties[pos]
                     ELSE UndefinedPropertyState]
        p1 == [players EXCEPT ![giver].properties = MapDelete(@, positions)]
    IN [p1 EXCEPT ![taker].properties =
           [pos \in DOMAIN p1[taker].properties \cup positions |->
               IF pos \in positions THEN given[pos] ELSE p1[taker].properties[pos]]]

handleAcceptTrade(s) ==
    IF s.activeTrade = <<>> THEN Rejected(s)
    ELSE LET trade == s.activeTrade[1]
             from == FindPlayer(s, trade.fromPlayerId)
             to == FindPlayer(s, trade.toPlayerId)
             p1 == TransferProperties(s.players, from, to, trade.offeredProperties)
             p2 == TransferProperties(p1, to, from, trade.requestedProperties)
             p3 == IF trade.offeredMoney > 0
                   THEN [[p2 EXCEPT ![from].balance = @ - trade.offeredMoney]
                            EXCEPT ![to].balance = @ + trade.offeredMoney]
                   ELSE p2
             p4 == IF trade.requestedMoney > 0
                   THEN [[p3 EXCEPT ![to].balance = @ - trade.requestedMoney]
                            EXCEPT ![from].balance = @ + trade.requestedMoney]
                   ELSE p3
         IN Success([s EXCEPT !.players = p4,
                              !.activeTrade = <<>>,
                              !.turnPhase = IF s.pendingDebt # <<>> THEN "paying_debt"
                                            ELSE "post_action"],
                    <<[type |-> "trade_completed",
                       fromPlayer |-> trade.fromPlayerId,
                       toPlayer |-> trade.toPlayerId]>>)

\* handleRejectTrade dropping the pending debt along with the offer.
handleRejectTrade_ClearsDebt(s) ==
    IF s.activeTrade = <<>> THEN Rejected(s)
    ELSE Success([s EXCEPT !.activeTrade = <<>>,
                           !.pendingDebt = <<>>,
                           !.turnPhase = "post_action"],
                 <<[type |-> "trade_rejected",
                    fromPlayer |-> s.activeTrade[1].fromPlayerId,
                    toPlayer |-> s.activeTrade[1].toPlayerId]>>)

handleRejectTrade(s) ==
    IF s.activeTrade = <<>> THEN Rejected(s)
    ELSE Success([s EXCEPT !.activeTrade = <<>>,
                           !.turnPhase = IF s.pendingDebt # <<>> THEN "paying_debt"
                                         ELSE "post_action"],
                 <<[type |-> "trade_rejected",
                    fromPlayer |-> s.activeTrade[1].fromPlayerId,
                    toPlayer |-> s.activeTrade[1].toPlayerId]>>)

\* handleEndTurn granting the extra roll on any doubles, counted or not.
handleEndTurn_AnyDoubles(s) ==
    LET i == Cur(s)
        player == s.players[i]
    IN IF /\ ~player.inJail
          /\ s.lastDiceRoll # <<>>
          /\ IsDoubles(s.lastDiceRoll)
       THEN Success([s EXCEPT !.turnPhase = "pre_roll"], <<>>)
       ELSE Success([s EXCEPT !.players[i].doublesCount = 0,
                              !.lastDiceRoll = <<>>,
                              !.turnPhase = "turn_complete"], <<>>)

handleEndTurn(s) ==
    LET i == Cur(s)
        player == s.players[i]
    IN IF /\ player.doublesCount > 0
          /\ ~player.inJail
          /\ s.lastDiceRoll # <<>>
          /\ IsDoubles(s.lastDiceRoll)
       THEN Success([s EXCEPT !.turnPhase = "pre_roll"], <<>>)
       ELSE Success([s EXCEPT !.players[i].doublesCount = 0,
                              !.lastDiceRoll = <<>>,
                              !.turnPhase = "turn_complete"], <<>>)

RECURSIVE SkipBankrupt(_, _, _)
SkipBankrupt(s, next, attempts) ==
    IF s.players[next].isBankrupt /\ attempts < Len(s.players)
    THEN SkipBankrupt(s, (next % Len(s.players)) + 1, attempts + 1)
    ELSE next

advanceToNextPlayer(s) ==
    LET next == SkipBankrupt(s, (Cur(s) % Len(s.players)) + 1, 0)
    IN [s EXCEPT !.currentPlayerIndex = next,
                 !.turnPhase = "pre_roll",
                 !.turnNumber = @ + 1,
                 !.players[next].doublesCount = 0]

handleBankruptcy(s) ==
    LET i == Cur(s)
        player == s.players[i]
        creditor == IF s.pendingDebt # <<>> THEN s.pendingDebt[1].creditor ELSE "bank"
        c == FindPlayer(s, creditor)
        props == player.properties
        s1 == [s EXCEPT !.players[i].isBankrupt = TRUE]
        \* assets to the creditor, or houses and hotels back to the bank
        s2 == IF creditor # "bank"
              THEN [s1 EXCEPT
                      !.players[c].properties =
                          [pos \in DOMAIN @ \cup DOMAIN props |->
                              IF pos \in DOMAIN props THEN props[pos] ELSE @[pos]],
                      !.players[c].balance =
                          IF player.balance > 0 THEN @ + player.balance ELSE @,
                      !.players[c].getOutOfJailCards = @ + player.getOutOfJailCards]
              ELSE LET hotels == {pos \in DOMAIN props : props[pos].houses = 5}
                       houses == [pos \in DOMAIN props |-> props[pos].houses]
                   IN [s1 EXCEPT
                         !.bankHotels = @ + Cardinality(hotels),
                         !.bankHouses = @ + SumOver(houses, DOMAIN props \ hotels)]
        s3 == [s2 EXCEPT !.players[i].properties = <<>>,
                         !.players[i].balance = 0,
                         !.players[i].getOutOfJailCards = 0,
                         !.pendingDebt = <<>>]
        active == getActivePlayers(s3)
        over == Cardinality(active) = 1
        s4 == IF over THEN [s3 EXCEPT !.winner = s3.players[SetMin(active)].id] ELSE s3
    IN Success(advanceToNextPlayer([s4 EXCEPT !.turnPhase = "turn_complete"]),
               <<[type |-> "bankruptcy", playerId |-> player.id, creditor |-> creditor]>>
               \o (IF over THEN <<[type |-> "game_over",
                                   winnerId |-> s3.players[SetMin(active)].id]>>
                   ELSE <<>>))

handleUseJailCard(s) ==
    LET i == Cur(s)
        player == s.players[i]
    IN IF ~player.inJail THEN Rejected(s)
       ELSE IF player.getOutOfJailCards <= 0 THEN Rejected(s)
       ELSE Success([s EXCEPT !.players[i].getOutOfJailCards = @ - 1,
                              !.players[i].inJail = FALSE,
                              !.players[i].jailTurns = 0,
                              !.turnPhase = "awaiting_roll"],
                    <<[type |-> "get_out_of_jail", playerId |-> player.id]>>)

\* handlePayJailFine with the fine taken before the balance check.
handlePayJailFine_ChargeFirst(s) ==
    LET i == Cur(s)
        charged == [s EXCEPT !.players[i].balance = @ - 50]
    IN IF ~s.players[i].inJail THEN Rejected(s)
       ELSE IF charged.players[i].balance < 0 THEN Rejected(charged)
       ELSE Success([charged EXCEPT !.players[i].inJail = FALSE,
                                    !.players[i].jailTurns = 0,
                                    !.turnPhase = "awaiting_roll"],
                    <<[type |-> "get_out_of_jail", playerId |-> s.players[i].id],
                      [type |-> "pay", playerId |-> s.players[i].id, amount |-> 50]>>)

handlePayJailFine(s) ==
    LET i == Cur(s)
        player == s.players[i]
    IN IF ~player.inJail THEN Rejected(s)
       ELSE IF player.balance < 50 THEN Rejected(s)
       ELSE Success([s EXCEPT !.players[i].balance = @ - 50,
                              !.players[i].inJail = FALSE,
                              !.players[i].jailTurns = 0,
                              !.turnPhase = "awaiting_roll"],
                    <<[type |-> "get_out_of_jail", playerId |-> player.id],
                      [type |-> "pay", playerId |-> player.id, amount |-> 50]>>)

\* positions.find(p => p > position), or positions[0] when none is ahead
NearestAhead(positions, position) ==
    LET ahead == {k \in 1..Len(positions) : positions[k] > position}
    IN IF ahead = {} THEN positions[1] ELSE positions[SetMin(ahead)]

\* collect_from_each_player / pay_each_player: every other non-bankrupt
\* player's balance moves by delta, the drawing player's by the opposite total
EachOther(s, i, delta) ==
    LET others == {o \in PlayerIdx(s) : o # i /\ ~s.players[o].isBankrupt}
    IN [s EXCEPT !.players =
           [o \in DOMAIN s.players |->
               IF o \in others THEN [s.players[o] EXCEPT !.balance = @ + delta]
               ELSE IF o = i
                    THEN [s.players[o] EXCEPT !.balance = @ - delta * Cardinality(others)]
                    ELSE s.players[o]]]

RECURSIVE TransferEvents(_, _, _, _, _)
TransferEvents(s, i, o, amount, toDrawer) ==
    IF o > Len(s.players) THEN <<>>
    ELSE (IF o # i /\ ~s.players[o].isBankrupt
          THEN <<[type |-> "transfer",
                  fromPlayerId |-> IF toDrawer THEN s.players[o].id ELSE s.players[i].id,
                  toPlayerId |-> IF toDrawer THEN s.players[i].id ELSE s.players[o].id,
                  amount |-> amount]>>
          ELSE <<>>) \o TransferEvents(s, i, o + 1, amount, toDrawer)

\* [st, ev]: the state and the events pushed
applyCardEffect(s, i, effect) ==
    LET id == s.players[i].id
    IN CASE effect.type = "move_to" ->
              LET m == movePlayerToPosition(s, i, effect.position, effect.collectGo)
              IN [st |-> [m.st EXCEPT !.turnPhase = "post_roll_land"], ev |-> m.ev]
         [] effect.type = "move_back" ->
              LET newPos == (s.players[i].position - effect.spaces + 40) % 40
              IN [st |-> [s EXCEPT !.players[i].position = newPos,
                                   !.turnPhase = "post_roll_land"],
                  ev |-> <<[type |-> "move", playerId |-> id,
                            from |-> newPos + effect.spaces, to |-> newPos,
                            passedGo |-> FALSE]>>]
         [] effect.type = "move_to_nearest" ->
              LET positions == IF effect.spaceType = "railroad" THEN RAILROAD_POSITIONS
                               ELSE UTILITY_POSITIONS
                  nearest == NearestAhead(positions, s.players[i].position)
                  from == s.players[i].position
                  passedGo == nearest < from
                  s1 == [s EXCEPT !.players[i].balance =
                                      IF passedGo THEN @ + 200 ELSE @,
                                  !.players[i].position = nearest]
                  moved == (IF passedGo
                            THEN <<[type |-> "pass_go", playerId |-> id, collected |-> 200]>>
                            ELSE <<>>)
                           \o <<[type |-> "move", playerId |-> id, from |-> from,
                                 to |-> nearest, passedGo |-> passedGo]>>
                  owner == getPropertyOwner(s1, nearest)
              IN IF /\ owner # 0
                    /\ owner # i
                    /\ ~s1.players[owner].properties[nearest].mortgaged
                 THEN LET rent == calculateRent(s1, nearest, s1.lastDiceRoll,
                                                effect.payMultiplier)
                          s2 == [s1 EXCEPT !.players[i].balance = @ - rent,
                                           !.players[owner].balance = @ + rent]
                      IN [st |-> AfterCharge(s2, i, s2.players[owner].id),
                          ev |-> moved \o <<[type |-> "pay_rent", payerId |-> id,
                                             ownerId |-> s2.players[owner].id,
                                             amount |-> rent]>>]
                 ELSE IF owner = 0
                 THEN [st |-> [s1 EXCEPT !.turnPhase = "purchase_decision"], ev |-> moved]
                 ELSE [st |-> [s1 EXCEPT !.turnPhase = "post_action"], ev |-> moved]
         [] effect.type = "collect" ->
              [st |-> [s EXCEPT !.players[i].balance = @ + effect.amount,
                                !.turnPhase = "post_action"],
               ev |-> <<[type |-> "collect", playerId |-> id, amount |-> effect.amount]>>]
         [] effect.type = "pay" ->
              [st |-> AfterCharge([s EXCEPT !.players[i].balance = @ - effect.amount],
                                  i, "bank"),
               ev |-> <<[type |-> "pay", playerId |-> id, amount |-> effect.amount]>>]
         [] effect.type = "pay_per_house" ->
              LET n == countHousesAndHotels(s, i)
                  total == n.houses * effect.houseAmount + n.hotels * effect.hotelAmount
              IN [st |-> AfterCharge([s EXCEPT !.players[i].balance = @ - total],
                                     i, "bank"),
                  ev |-> <<[type |-> "pay", playerId |-> id, amount |-> total]>>]
         [] effect.type = "collect_from_each_player" ->
              [st |-> [EachOther(s, i, 0 - effect.amount) EXCEPT
                           !.turnPhase = "post_action"],
               ev |-> TransferEvents(s, i, 1, effect.amount, TRUE)]
         [] effect.type = "pay_each_player" ->
              [st |-> AfterCharge(EachOther(s, i, effect.amount), i, "bank"),
               ev |-> TransferEvents(s, i, 1, effect.amount, FALSE)]
         [] effect.type = "get_out_of_jail_free" ->
              [st |-> [s EXCEPT !.players[i].getOutOfJailCards = @ + 1,
                                !.turnPhase = "post_action"],
               ev |-> <<>>]
         [] effect.type = "go_to_jail" ->
              LET j == sendToJail(s, i)
              IN [st |-> [j.st EXCEPT !.turnPhase = "post_action"], ev |-> j.ev]

\* events: the events pushed so far (the land event)
resolveCardDraw(s, i, deckType, events, shuffle) ==
    LET isChance == deckType = "chance"
        cards == IF isChance THEN CHANCE_CARDS ELSE COMMUNITY_CHEST_CARDS
        result == IF isChance
                  THEN drawCard(s.chanceDeck, s.chanceDiscardPile, cards, shuffle)
                  ELSE drawCard(s.communityChestDeck, s.communityChestDiscardPile,
                                cards, shuffle)
        s1 == IF isChance
              THEN [s EXCEPT !.chanceDeck = result.newDeck,
                             !.chanceDiscardPile = result.newDiscardPile]
              ELSE [s EXCEPT !.communityChestDeck = result.newDeck,
                             !.communityChestDiscardPile = result.newDiscardPile]
        e == applyCardEffect(s1, i, result.card)
    IN Success(e.st, events \o <<[type |-> "draw_card", playerId |-> s.players[i].id,
                                  deck |-> deckType, card |-> result.card]>> \o e.ev)

autoResolveLanding(state0, shuffle) ==
    LET s == cloneState(state0)
        i == Cur(s)
        player == s.players[i]
        space == getSpace(player.position)
        land == <<[type |-> "land", playerId |-> player.id,
                   position |-> player.position]>>
    IN IF space.type \in {"go", "jail", "free_parking"}
       THEN Success([s EXCEPT !.turnPhase = "post_action"], land)
       ELSE IF space.type = "go_to_jail"
       THEN LET j == sendToJail(s, i)
            IN Success([j.st EXCEPT !.turnPhase = "post_action"], land \o j.ev)
       ELSE IF space.type = "tax"
       THEN Success(AfterCharge([s EXCEPT !.players[i].balance = @ - space.amount],
                                i, "bank"),
                    land \o <<[type |-> "pay_tax", playerId |-> player.id,
                               amount |-> space.amount]>>)
       ELSE IF space.type \in {"chance", "community_chest"}
       THEN resolveCardDraw(s, i, space.type, land, shuffle)
       ELSE \* property, railroad, utility
            IF ~isPropertyOwned(s, player.position)
            THEN Success([s EXCEPT !.turnPhase = "purchase_decision"], land)
            ELSE LET owner == getPropertyOwner(s, player.position)
                     rent == calculateRent(s, player.position, s.lastDiceRoll, 0)
                 IN IF /\ owner # i
                       /\ ~s.players[owner].properties[player.position].mortgaged
                       /\ rent > 0
                    THEN Success(
                           AfterCharge([s EXCEPT !.players[i].balance = @ - rent,
                                                 !.players[owner].balance = @ + rent],
                                       i, s.players[owner].id),
                           land \o <<[type |-> "pay_rent", payerId |-> player.id,
                                      ownerId |-> s.players[owner].id,
                                      amount |-> rent]>>)
                    ELSE Success([s EXCEPT !.turnPhase = "post_action"], land)

\* roll: the dice the rng yields if the action rolls
applyAction(state0, action, roll) ==
    LET newState == cloneState(state0)
        kind == action.action
    IN CASE kind = "roll_dice" -> handleRollDice(newState, roll)
         [] kind = "buy_property" -> handleBuyProperty(newState)
         [] kind = "auction_property" -> handleAuctionProperty(newState)
         [] kind = "build_house" -> handleBuildHouse(newState, action.propertyPosition)
         [] kind = "build_hotel" -> handleBuildHotel(newState, action.propertyPosition)
         [] kind = "sell_house" ->
              handleSellHouse(newState, action.propertyPosition, state0)
         [] kind = "mortgage_property" ->
              handleMortgage(newState, action.propertyPosition)
         [] kind = "unmortgage_property" ->
              handleUnmortgage(newState, action.propertyPosition)
         [] kind = "trade_offer" -> handleTradeOffer(newState, action.offer)
         [] kind = "accept_trade" -> handleAcceptTrade(newState)
         [] kind = "reject_trade" -> handleRejectTrade(newState)
         [] kind = "end_turn" -> handleEndTurn(newState)
         [] kind = "declare_bankruptcy" -> handleBankruptcy(newState)
         [] kind = "use_get_out_of_jail_card" -> handleUseJailCard(newState)
         [] kind = "pay_jail_fine" -> handlePayJailFine(newState)
         [] kind = "submit_bid" -> handleSubmitBid(newState, action.amount)
         [] OTHER -> Rejected(state0)

\* ------------------------------------------------------------ legal actions

\* An AvailableAction: the action kind, the enum of property positions of its
\* parameter schema ({} when it has none) and, for trade_offer, the enum of
\* target player ids.
Available(kind, enum) == [action |-> kind, enum |-> enum, targets |-> {}]

addBuildActions(s, i) ==
    LET player == s.players[i]
        eligible == {pos \in DOMAIN player.properties :
                        /\ getSpace(pos).type = "property"
                        /\ ~player.properties[pos].mortgaged
                        /\ playerOwnsColorGroup(s, i, COLOR_GROUP_MEMBERS[getSpace(pos).colorGroup])
                        /\ ~\E gp \in COLOR_GROUP_MEMBERS[getSpace(pos).colorGroup] :
                               player.properties[gp].mortgaged}
        buildablePositions ==
            {pos \in eligible :
                /\ player.properties[pos].houses < 4
                /\ player.properties[pos].houses <=
                       SetMin(GroupHouses(player, COLOR_GROUP_MEMBERS[getSpace(pos).colorGroup]))
                /\ player.balance >= getSpace(pos).houseCost
                /\ s.bankHouses > 0}
        hotelPositions ==
            {pos \in eligible :
                /\ player.properties[pos].houses = 4
                /\ s.bankHotels > 0
                /\ player.balance >= getSpace(pos).houseCost}
    IN (IF buildablePositions # {} THEN {Available("build_house", buildablePositions)}
        ELSE {})
       \cup (IF hotelPositions # {} THEN {Available("build_hotel", hotelPositions)}
             ELSE {})

\* player.properties.get(p)?.houses ?? 0
HousesOrZero(player, p) ==
    IF p \in DOMAIN player.properties THEN player.properties[p].houses ELSE 0

addSellHouseActions(s, i) ==
    LET player == s.players[i]
        sellablePositions ==
            {pos \in DOMAIN player.properties :
                /\ getSpace(pos).type = "property"
                /\ player.properties[pos].houses # 0
                /\ \/ player.properties[pos].houses = 5
                   \/ player.properties[pos].houses >=
                          SetMax({HousesOrZero(player, p) :
                                     p \in COLOR_GROUP_MEMBERS[getSpace(pos).colorGroup]})}
    IN IF sellablePositions # {} THEN {Available("sell_house", sellablePositions)}
       ELSE {}

addMortgageActions(s, i) ==
    LET player == s.players[i]
        mortgageablePositions ==
            {pos \in DOMAIN player.properties :
                /\ ~player.properties[pos].mortgaged
                /\ ~(/\ getSpace(pos).type = "property"
                     /\ \E gp \in COLOR_GROUP_MEMBERS[getSpace(pos).colorGroup] :
                            HousesOrZero(player, gp) > 0)}
    IN IF mortgageablePositions # {}
       THEN {Available("mortgage_property", mortgageablePositions)}
       ELSE {}

addUnmortgageActions(s, i) ==
    LET player == s.players[i]
        unmortgageablePositions ==
            {pos \in DOMAIN player.properties :
                /\ player.properties[pos].mortgaged
                /\ player.balance >= UnmortgageCost(getSpace(pos))}
    IN IF unmortgageablePositions # {}
       THEN {Available("unmortgage_property", unmortgageablePositions)}
       ELSE {}

addTradeActions(s, i) ==
    LET player == s.players[i]
        otherPlayers == {o \in PlayerIdx(s) : o # i /\ ~s.players[o].isBankrupt}
        tradablePositions == {pos \in DOMAIN player.properties :
                                 player.properties[pos].houses = 0}
    IN IF otherPlayers = {} \/ DOMAIN player.properties = {} THEN {}
       ELSE IF tradablePositions = {} THEN {}
       ELSE {[action |-> "trade_offer", enum |-> tradablePositions,
              targets |-> {s.players[o].id : o \in otherPlayers}]}

getPreRollActions(s, i) ==
    {Available("roll_dice", {})}
    \cup addBuildActions(s, i) \cup addMortgageActions(s, i) \cup addTradeActions(s, i)

getAwaitingRollActions(s, i) ==
    IF s.players[i].inJail
    THEN {Available("roll_dice", {})}
         \cup (IF s.players[i].getOutOfJailCards > 0
               THEN {Available("use_get_out_of_jail_card", {})} ELSE {})
         \cup (IF s.players[i].balance >= 50
               THEN {Available("pay_jail_fine", {})} ELSE {})
    ELSE {Available("roll_dice", {})}

getPurchaseDecisionActions(s, i) ==
    (IF s.players[i].balance >= getSpace(s.players[i].position).price
     THEN {Available("buy_property", {})} ELSE {})
    \cup {Available("auction_property", {})}

getAuctionActions(s, i) == {Available("submit_bid", {})}

getPayingDebtActions(s, i) ==
    addSellHouseActions(s, i) \cup addMortgageActions(s, i) \cup addTradeActions(s, i)
    \cup {Available("declare_bankruptcy", {})}
    \cup (IF s.players[i].balance >= 0 THEN {Available("end_turn", {})} ELSE {})

getTradingActions(s) == {Available("accept_trade", {}), Available("reject_trade", {})}

getPostActionActions(s, i) ==
    {Available("end_turn", {})}
    \cup addBuildActions(s, i) \cup addMortgageActions(s, i)
    \cup addUnmortgageActions(s, i) \cup addTradeActions(s, i)

getAvailableActions(s) ==
    LET i == Cur(s)
    IN IF s.players[i].isBankrupt THEN {}
       ELSE CASE s.turnPhase = "pre_roll" -> getPreRollActions(s, i)
              [] s.turnPhase = "awaiting_roll" -> getAwaitingRollActions(s, i)
              [] s.turnPhase = "purchase_decision" -> getPurchaseDecisionActions(s, i)
              [] s.turnPhase = "auction" -> getAuctionActions(s, i)
              [] s.turnPhase = "paying_debt" -> getPayingDebtActions(s, i)
              [] s.turnPhase = "trading" -> getTradingActions(s)
              [] s.turnPhase = "post_action" -> getPostActionActions(s, i)
              [] OTHER -> {}

\* ------------------------------------------------------------ initial states

PlayerId(i) == CASE i = 1 -> "player_0" [] i = 2 -> "player_1" [] OTHER -> "player_2"

DeckOrder(start) == [k \in 1..16 |-> (start + k - 1) % 16]

createInitialState(numPlayers, chanceStart, chestStart) ==
    [players |-> [i \in 1..numPlayers |->
                     [id |-> PlayerId(i), position |-> 0, balance |-> 1500,
                      properties |-> <<>>, inJail |-> FALSE, jailTurns |-> 0,
                      getOutOfJailCards |-> 0, isBankrupt |-> FALSE,
                      doublesCount |-> 0]],
     currentPlayerIndex |-> 1,
     turnPhase |-> "pre_roll",
     turnNumber |-> 1,
     lastDiceRoll |-> <<>>,
     chanceDeck |-> DeckOrder(chanceStart),
     communityChestDeck |-> DeckOrder(chestStart),
     chanceDiscardPile |-> <<>>,
     communityChestDiscardPile |-> <<>>,
     bankHouses |-> 32,
     bankHotels |-> 12,
     activeTrade |-> <<>>,
     pendingDebt |-> <<>>,
     winner |-> "null"]

\* A scenario preset of one player; an absent field is the empty tuple.
Preset(balance, position, cards, inJail, properties) ==
    [balance |-> balance, position |-> position, getOutOfJailCards |-> cards,
     inJail |-> inJail, properties |-> properties]

Prop(position, houses) == [position |-> position, houses |-> houses, mortgaged |-> FALSE]

RECURSIVE ApplyPresetProperties(_, _, _, _)
ApplyPresetProperties(s, i, props, k) ==
    IF k > Len(props) THEN s
    ELSE LET prop == props[k]
             s1 == [s EXCEPT !.players[i].properties =
                        MapSet(@, prop.position,
                               [houses |-> prop.houses, mortgaged |-> prop.mortgaged]),
                      !.bankHotels = IF prop.houses = 5 THEN @ - 1 ELSE @,
                      !.bankHouses = IF prop.houses # 5 /\ prop.houses > 0
                                     THEN @ - prop.houses ELSE @]
         IN ApplyPresetProperties(s1, i, props, k + 1)

RECURSIVE applyScenario(_, _, _)
applyScenario(s, scenario, i) ==
    IF i > Len(scenario) \/ i > Len(s.players) THEN s
    ELSE LET preset == scenario[i]
             s1 == [s EXCEPT
                      !.players[i].balance =
                          IF preset.balance # <<>> THEN preset.balance[1] ELSE @,
                      !.players[i].position =
                          IF preset.inJail = <<TRUE>> THEN 10
                          ELSE IF preset.position # <<>> THEN preset.position[1] ELSE @,
                      !.players[i].getOutOfJailCards =
                          IF preset.getOutOfJailCards # <<>>
                          THEN preset.getOutOfJailCards[1] ELSE @,
                      !.players[i].inJail =
                          IF preset.inJail # <<>> THEN preset.inJail[1] ELSE @]
         IN applyScenario(ApplyPresetProperties(s1, i, preset.properties, 1),
                          scenario, i + 1)

\* The scenarios the games of this model start from.
\* A player short of cash, with one house on a brown lot, about to land on the
\* other player's dark blue lots or on the luxury tax.
ScenarioDebt ==
    << Preset(<<80>>, <<36>>, <<>>, <<>>, <<Prop(1, 1), Prop(3, 0)>>),
       Preset(<<>>, <<>>, <<>>, <<>>, <<Prop(37, 0), Prop(39, 0)>>) >>

\* A player with four houses on each brown lot and a railroad, against a
\* player with five dollars standing before a Chance space.
ScenarioHotel ==
    << Preset(<<300>>, <<>>, <<>>, <<>>, <<Prop(1, 4), Prop(3, 4), Prop(5, 0)>>),
       Preset(<<5>>, <<34>>, <<>>, <<>>, <<>>) >>

\* A jailed player with a card and thirty dollars.
ScenarioJail ==
    << Preset(<<30>>, <<>>, <<1>>, <<TRUE>>, <<>>),
       Preset(<<>>, <<>>, <<>>, <<>>, <<Prop(12, 0), Prop(13, 0)>>) >>

\* A player who owns one railroad.
ScenarioRailroad ==
    << Preset(<<>>, <<>>, <<>>, <<>>, <<Prop(5, 0)>>) >>

\* First cards of the Chance and the Community Chest deck.
DeckStarts == {<<4, 8>>, <<14, 13>>, <<9, 5>>}

\* A fresh game, or a scenario file applied to it.
InitialStates ==
    {createInitialState(2, d[1], d[2]) : d \in DeckStarts}
    \cup {applyScenario(createInitialState(2, d[1], d[2]), ScenarioHotel, 1) :
              d \in DeckStarts}
    \cup {applyScenario(createInitialState(2, 4, 8), sc, 1) :
              sc \in {ScenarioDebt, ScenarioJail}}

\* ------------------------------------------------------------ orchestrator

MAX_ACTIONS_PER_TURN == 20

\* config.maxTurns of the games explored.
MaxTurns == 2
\* Exploration budgets of the main specification: the agent decisions of a
\* game that succeed, and those the engine rejects.
MaxSteps == 3
MaxRejects == 1
\* Budget of decisions of the specification of the well-behaved agent.
MaxStepsLegal == 6
\* Budgets of the specification that reaches the per-turn action limit.
MaxStepsCut == 3
MaxRejectsCut == 19

DiceInputs == {<<1, 1>>, <<1, 2>>}
ShuffleInputs == {0, 5}
BidInputs == {0, 50, 100}
MoneyInputs == {25}

\* A state in which a handler has stored the spread of an absent PropertyState
\* (houses undefined).  Arithmetic on it is NaN in the code; the model does
\* not explore beyond such a state.
Corrupt(s) ==
    \E i \in PlayerIdx(s) : \E pos \in DOMAIN s.players[i].properties :
        s.players[i].properties[pos].houses = UndefinedHouses

Offer(from, to, offered, offeredMoney, requested, requestedMoney) ==
    [fromPlayerId |-> from, toPlayerId |-> to,
     offeredProperties |-> offered, offeredMoney |-> offeredMoney,
     requestedProperties |-> requested, requestedMoney |-> requestedMoney]

\* The tool calls that stay within the schemas getAvailableActions returned:
\* a listed kind, a position of its enum, a listed trade target offering one
\* tradable lot, any bid.
OfferedActions(s) ==
    UNION {IF a.action = "trade_offer"
           THEN {[action |-> "trade_offer",
                  offer |-> Offer(CurPlayer(s).id, t, {p}, 0, {}, 0)] :
                    t \in a.targets, p \in a.enum}
           ELSE IF a.action = "submit_bid"
           THEN {[action |-> "submit_bid", amount |-> b] : b \in BidInputs}
           ELSE IF a.enum # {}
           THEN {[action |-> a.action, propertyPosition |-> p] : p \in a.enum}
           ELSE {[action |-> a.action]} : a \in getAvailableActions(s)}

PositionInputs(s) == DOMAIN CurPlayer(s).properties \cup {CurPlayer(s).position}

TradeInputs(s) ==
    LET i == Cur(s)
        own == DOMAIN s.players[i].properties
    IN UNION {{Offer(s.players[i].id, s.players[o].id, {p}, 0, {}, m) :
                   p \in own, m \in {0} \cup MoneyInputs}
              \cup {Offer(s.players[i].id, s.players[o].id, {}, m, {q}, 0) :
                       q \in DOMAIN s.players[o].properties, m \in MoneyInputs}
              : o \in PlayerIdx(s) \ {i}}

\* parseToolCall: any of the sixteen tools, whatever the phase.
ToolCalls(s) ==
    {[action |-> k] : k \in {"roll_dice", "buy_property", "auction_property",
                             "accept_trade", "reject_trade", "end_turn",
                             "declare_bankruptcy", "use_get_out_of_jail_card",
                             "pay_jail_fine"}}
    \cup {[action |-> k, propertyPosition |-> p] :
             k \in {"build_house", "build_hotel", "sell_house",
                    "mortgage_property", "unmortgage_property"},
             p \in PositionInputs(s)}
    \cup {[action |-> "trade_offer", offer |-> o] : o \in TradeInputs(s)}
    \cup {[action |-> "submit_bid", amount |-> b] : b \in BidInputs}
    \cup OfferedActions(s)

\* advanceTurn that leaves the turn number as it is.
advanceTurn_SameTurnNumber(s) ==
    [s EXCEPT !.players[Cur(s)].doublesCount = 0,
              !.currentPlayerIndex = SkipBankrupt(s, (Cur(s) % Len(s.players)) + 1, 0),
              !.turnPhase = "turn_complete",
              !.lastDiceRoll = <<>>]

advanceTurn(s) ==
    LET n == Len(s.players)
        i == Cur(s)
    IN [s EXCEPT !.players[i].doublesCount = 0,
                 !.currentPlayerIndex = SkipBankrupt(s, (i % n) + 1, 0),
                 !.turnPhase = "turn_complete",
                 !.turnNumber = @ + 1,
                 !.lastDiceRoll = <<>>]

\* run: the winner check after executeTurn.
CheckWinner(s) ==
    IF Cardinality(getActivePlayers(s)) = 1
    THEN [s EXCEPT !.winner = s.players[CHOOSE i \in getActivePlayers(s) : TRUE].id]
    ELSE s

AfterTurn(s) == IF Cardinality(getActivePlayers(s)) = 1 THEN "done" ELSE "run"

InTurnLoop ==
    /\ pc = "turn"
    /\ ~Corrupt(state)
    /\ state.turnPhase # "turn_complete"
    /\ actionCount < MAX_ACTIONS_PER_TURN

DecisionPoint ==
    /\ InTurnLoop
    /\ state.turnPhase \notin {"post_roll_land", "auction", "trading"}
    /\ getAvailableActions(state) # {}

Init ==
    /\ state \in InitialStates
    /\ actionCount = 0
    /\ pc = "run"
    /\ lastStep = "init"
    /\ steps = 0
    /\ rejects = 0
    /\ doublesRun = 0
    /\ twin = NoTwin
    /\ history = NoHistory

\* run: the loop condition holds and executeTurn starts the turn, or skips a
\* bankrupt current player.
StartTurnWithin(maxTurns) ==
    /\ pc = "run"
    /\ ~Corrupt(state)
    /\ state.winner = "null"
    /\ state.turnNumber <= maxTurns
    /\ IF CurPlayer(state).isBankrupt
       THEN /\ state' = CheckWinner(advanceTurn(state))
            /\ pc' = AfterTurn(advanceTurn(state))
            /\ lastStep' = "skip_bankrupt"
       ELSE /\ state' = [state EXCEPT !.turnPhase = "pre_roll"]
            /\ pc' = "turn"
            /\ lastStep' = "start_turn"
    /\ actionCount' = 0
    /\ doublesRun' = 0
    /\ UNCHANGED <<steps, rejects, twin, history>>

StartTurn == StartTurnWithin(MaxTurns)

\* run: the loop condition fails.
GameOverWithin(maxTurns) ==
    /\ pc = "run"
    /\ ~Corrupt(state)
    /\ ~(state.winner = "null" /\ state.turnNumber <= maxTurns)
    /\ pc' = "done"
    /\ lastStep' = "game_over"
    /\ UNCHANGED <<state, actionCount, steps, rejects, doublesRun, twin, history>>

GameOver == GameOverWithin(MaxTurns)

ResolveLanding ==
    /\ InTurnLoop
    /\ state.turnPhase = "post_roll_land"
    /\ \E shuffle \in ShuffleInputs :
          state' = autoResolveLanding(state, shuffle).newState
    /\ lastStep' = "auto_resolve"
    /\ UNCHANGED <<actionCount, pc, steps, rejects, doublesRun, twin, history>>

\* handleAuction: every non-bankrupt player bids; the bid is clamped to the
\* bidder's balance.
ClampBid(bid, balance) ==
    LET m == IF bid < balance THEN bid ELSE balance
    IN IF m > 0 THEN m ELSE 0

HandleAuction ==
    /\ InTurnLoop
    /\ state.turnPhase = "auction"
    /\ \E raw \in [getActivePlayers(state) -> BidInputs] :
          LET bids == [i \in getActivePlayers(state) |->
                          ClampBid(raw[i], state.players[i].balance)]
          IN state' = resolveAuction(state, bids, CurPlayer(state).position).newState
    /\ lastStep' = "resolve_auction"
    /\ UNCHANGED <<actionCount, pc, steps, rejects, doublesRun, twin, history>>

\* handleTradeResponse: the target accepts or rejects; anything else is a
\* rejection.
HandleTradeResponse ==
    /\ InTurnLoop
    /\ state.turnPhase = "trading"
    /\ IF state.activeTrade = <<>>
       THEN /\ state' = [state EXCEPT !.turnPhase = "post_action"]
            /\ lastStep' = "no_trade"
       ELSE \E k \in {"accept_trade", "reject_trade"} :
               LET result == applyAction(state, [action |-> k], <<1, 1>>)
               IN /\ state' = IF result.success THEN result.newState ELSE state
                  /\ lastStep' = IF result.success THEN k ELSE "response_rejected"
    /\ UNCHANGED <<actionCount, pc, steps, rejects, doublesRun, twin, history>>

\* rollDice is called by handleRollDice only.
RollsFor(action) == IF action.action = "roll_dice" THEN DiceInputs ELSE {<<1, 1>>}

\* executeTurn: the current player's agent returns a tool call and the engine
\* applies it.
Decide(calls, maxSteps, maxRejects) ==
    /\ DecisionPoint
    /\ \E action \in calls : \E roll \in RollsFor(action) :
          LET result == applyAction(state, action, roll)
          IN /\ IF result.success THEN steps < maxSteps ELSE rejects < maxRejects
             /\ state' = IF result.success THEN result.newState ELSE state
             /\ lastStep' = IF result.success THEN action.action ELSE "rejected"
             /\ steps' = IF result.success THEN steps + 1 ELSE steps
             /\ rejects' = IF result.success THEN rejects ELSE rejects + 1
             /\ doublesRun' =
                    IF ~result.success THEN doublesRun
                    ELSE IF action.action = "roll_dice"
                    THEN (IF IsDoubles(roll) THEN doublesRun + 1 ELSE 0)
                    ELSE IF Cur(result.newState) # Cur(state) THEN 0
                    ELSE doublesRun
    /\ actionCount' = actionCount + 1
    /\ UNCHANGED <<pc, twin, history>>

\* executeTurn: the agent produced no tool call in MAX_RETRIES attempts and
\* the orchestrator forces end_turn.
ForceEndTurn(maxSteps) ==
    /\ DecisionPoint
    /\ steps < maxSteps
    /\ state' = applyAction(state, [action |-> "end_turn"], <<1, 1>>).newState
    /\ lastStep' = "forced_end_turn"
    /\ actionCount' = actionCount + 1
    /\ steps' = steps + 1
    /\ UNCHANGED <<pc, rejects, doublesRun, twin, history>>

\* executeTurn: the loop is left and advanceTurn moves to the next player;
\* run then checks for a winner.
EndTurn ==
    /\ pc = "turn"
    /\ ~Corrupt(state)
    /\ \/ ~InTurnLoop
       \/ /\ state.turnPhase \notin {"post_roll_land", "auction", "trading"}
          /\ getAvailableActions(state) = {}
    /\ state' = CheckWinner(advanceTurn(state))
    /\ pc' = AfterTurn(advanceTurn(state))
    /\ lastStep' = "advance_turn"
    /\ UNCHANGED <<actionCount, steps, rejects, doublesRun, twin, history>>

\* Any agent: every tool call parseToolCall lets through.
Next ==
    \/ StartTurn
    \/ GameOver
    \/ ResolveLanding
    \/ HandleAuction
    \/ HandleTradeResponse
    \/ Decide(ToolCalls(state), MaxSteps, MaxRejects)
    \/ ForceEndTurn(MaxSteps)
    \/ EndTurn

Spec == Init /\ [][Next]_vars

\* A well-behaved agent: only tool calls within the schemas it was shown.
NextLegal ==
    \/ StartTurn
    \/ GameOver
    \/ ResolveLanding
    \/ HandleAuction
    \/ HandleTradeResponse
    \/ Decide(OfferedActions(state), MaxStepsLegal, MaxRejects)
    \/ EndTurn

SpecLegal == Init /\ [][NextLegal]_vars

\* Any agent, with enough rejected decisions in a turn to reach
\* MAX_ACTIONS_PER_TURN, from the scenario of one railroad.
InitCut ==
    /\ state = applyScenario(createInitialState(2, 4, 8), ScenarioRailroad, 1)
    /\ actionCount = 0
    /\ pc = "run"
    /\ lastStep = "init"
    /\ steps = 0
    /\ rejects = 0
    /\ doublesRun = 0
    /\ twin = NoTwin
    /\ history = NoHistory

NextCut ==
    \/ StartTurn
    \/ GameOver
    \/ ResolveLanding
    \/ HandleAuction
    \/ HandleTradeResponse
    \/ Decide(ToolCalls(state), MaxStepsCut, MaxRejectsCut)
    \/ ForceEndTurn(MaxStepsCut)
    \/ EndTurn

SpecCut == InitCut /\ [][NextCut]_vars


\* Any agent, in a fresh game of three players.
InitThree ==
    /\ state = createInitialState(3, 4, 8)
    /\ actionCount = 0
    /\ pc = "run"
    /\ lastStep = "init"
    /\ steps = 0
    /\ rejects = 0
    /\ doublesRun = 0
    /\ twin = NoTwin
    /\ history = NoHistory

SpecThree == InitThree /\ [][Next]_vars

\* Scenario files for railroad rent: the second player holds one to four
\* railroads, some of them mortgaged; the first player, with 120 dollars,
\* stands two steps before a railroad and three before a Chance space.
RailroadHoldings ==
    { <<Prop(5, 0)>>,
      <<Prop(5, 0), Prop(15, 0)>>,
      <<Prop(5, 0), Prop(25, 0), Prop(35, 0)>>,
      <<Prop(5, 0), Prop(15, 0), Prop(25, 0), Prop(35, 0)>>,
      <<Prop(5, 0), [position |-> 15, houses |-> 0, mortgaged |-> TRUE]>>,
      <<[position |-> 5, houses |-> 0, mortgaged |-> TRUE], Prop(25, 0), Prop(35, 0)>> }

ScenarioRailroads ==
    { << Preset(<<120>>, <<33>>, <<>>, <<>>, <<>>),
         Preset(<<>>, <<>>, <<>>, <<>>, holdings) >> :
        holdings \in RailroadHoldings }

InitRail ==
    /\ state \in {applyScenario(createInitialState(2, 4, 8), sc, 1) :
                      sc \in ScenarioRailroads}
    /\ actionCount = 0
    /\ pc = "run"
    /\ lastStep = "init"
    /\ steps = 0
    /\ rejects = 0
    /\ doublesRun = 0
    /\ twin = NoTwin
    /\ history = NoHistory

SpecRail == InitRail /\ [][Next]_vars

\* Scenario files that strain the bank's houses: the first player, on Free
\* Parking, has hotels on the brown lots; the second has four houses on
\* every light blue lot and, in the scenario that leaves the bank with two
\* houses, three on every pink and orange lot.
ScenarioShortage(otherHouses) ==
    << Preset(<<>>, <<20>>, <<>>, <<>>, <<Prop(1, 5), Prop(3, 5)>>),
       Preset(<<>>, <<>>, <<>>, <<>>,
              <<Prop(6, 4), Prop(8, 4), Prop(9, 4),
                Prop(11, otherHouses), Prop(13, otherHouses), Prop(14, otherHouses),
                Prop(16, otherHouses), Prop(18, otherHouses), Prop(19, otherHouses)>>) >>

InitShort ==
    /\ state \in {applyScenario(createInitialState(2, 4, 8),
                                   ScenarioShortage(otherHouses), 1) :
                      otherHouses \in {0, 3}}
    /\ actionCount = 0
    /\ pc = "run"
    /\ lastStep = "init"
    /\ steps = 0
    /\ rejects = 0
    /\ doublesRun = 0
    /\ twin = NoTwin
    /\ history = NoHistory

\* Budgets of the specification of the strained bank.
MaxStepsShort == 2
MaxRejectsShort == 1

NextShort ==
    \/ StartTurn
    \/ GameOver
    \/ ResolveLanding
    \/ HandleAuction
    \/ HandleTradeResponse
    \/ Decide(ToolCalls(state), MaxStepsShort, MaxRejectsShort)
    \/ ForceEndTurn(MaxStepsShort)
    \/ EndTurn

SpecShort == InitShort /\ [][NextShort]_vars

\* The landing pipeline alone: a player has just rolled onto any space of
\* the board, with any card on top of either deck and the other player
\* holding one of the railroad sets, and executeTurn calls
\* autoResolveLanding for as long as the phase is post_roll_land.  steps
\* counts the calls.
InitLand ==
    /\ state \in {[applyScenario(createInitialState(2, chance, chest), sc, 1) EXCEPT
                        !.players[1].position = position,
                        !.lastDiceRoll = <<1, 2>>,
                        !.turnPhase = "post_roll_land"] :
                      chance \in 0..15, chest \in 0..15, position \in 0..39,
                      sc \in ScenarioRailroads}
    /\ actionCount = 0
    /\ pc = "turn"
    /\ lastStep = "roll_dice"
    /\ steps = 0
    /\ rejects = 0
    /\ doublesRun = 0
    /\ twin = NoTwin
    /\ history = NoHistory

LandingCall ==
    /\ InTurnLoop
    /\ state.turnPhase = "post_roll_land"
    /\ \E shuffle \in ShuffleInputs :
          state' = autoResolveLanding(state, shuffle).newState
    /\ steps' = steps + 1
    /\ lastStep' = "auto_resolve"
    /\ UNCHANGED <<actionCount, pc, rejects, doublesRun, twin, history>>

SpecLand == InitLand /\ [][LandingCall]_vars

\* The life of the two decks over a long game.  Only resolveCardDraw writes
\* the decks, so the play between two draws is reduced to its outcome: the
\* current player's next roll ends on one of the six card spaces, and
\* autoResolveLanding draws there.  steps counts the draws.
MaxDraws == 34

CardSpaces == {pos \in 0..39 : getSpace(pos).type \in {"chance", "community_chest"}}

InitDeck ==
    /\ state \in {createInitialState(2, start[1], start[2]) : start \in DeckStarts}
    /\ actionCount = 0
    /\ pc = "turn"
    /\ lastStep = "init"
    /\ steps = 0
    /\ rejects = 0
    /\ doublesRun = 0
    /\ twin = NoTwin
    /\ history = NoHistory

CardLanding ==
    /\ steps < MaxDraws
    /\ \E position \in CardSpaces, shuffle \in ShuffleInputs :
          state' = autoResolveLanding(
                       [state EXCEPT !.players[Cur(state)].position = position,
                                     !.lastDiceRoll = <<1, 2>>,
                                     !.turnPhase = "post_roll_land"],
                       shuffle).newState
    /\ steps' = steps + 1
    /\ lastStep' = "auto_resolve"
    /\ UNCHANGED <<actionCount, pc, rejects, doublesRun, twin, history>>

SpecDeck == InitDeck /\ [][CardLanding]_vars

\* A longer game of the well-behaved agent in which both players start in
\* jail: the first with thirty or two hundred dollars and no card, the
\* second with a card.
MaxTurnsJail == 5
MaxStepsJail == 11

ScenarioJailed(balance) ==
    << Preset(<<balance>>, <<10>>, <<>>, <<TRUE>>, <<>>),
       Preset(<<>>, <<10>>, <<1>>, <<TRUE>>, <<>>) >>

InitJail ==
    /\ state \in {applyScenario(createInitialState(2, 4, 8), ScenarioJailed(balance), 1) :
                      balance \in {30, 200}}
    /\ actionCount = 0
    /\ pc = "run"
    /\ lastStep = "init"
    /\ steps = 0
    /\ rejects = 0
    /\ doublesRun = 0
    /\ twin = NoTwin
    /\ history = NoHistory

NextJail ==
    \/ StartTurnWithin(MaxTurnsJail)
    \/ GameOverWithin(MaxTurnsJail)
    \/ ResolveLanding
    \/ HandleAuction
    \/ HandleTradeResponse
    \/ Decide(OfferedActions(state), MaxStepsJail, MaxRejects)
    \/ EndTurn

SpecJail == InitJail /\ [][NextJail]_vars

\* Any agent, with enough rejected decisions in a turn to reach
\* MAX_ACTIONS_PER_TURN, in a game of three players: the first, with eighty
\* dollars and no property, stands before the second player's dark blue
\* lots and the luxury tax; the third has a fresh start.
ScenarioBroke ==
    << Preset(<<80>>, <<36>>, <<>>, <<>>, <<>>),
       Preset(<<>>, <<>>, <<>>, <<>>, <<Prop(37, 0), Prop(39, 0)>>) >>

InitCutThree ==
    /\ state = applyScenario(createInitialState(3, 4, 8), ScenarioBroke, 1)
    /\ actionCount = 0
    /\ pc = "run"
    /\ lastStep = "init"
    /\ steps = 0
    /\ rejects = 0
    /\ doublesRun = 0
    /\ twin = NoTwin
    /\ history = NoHistory

SpecCutThree == InitCutThree /\ [][NextCut]_vars

\* The whole of every turn, with no exploration budget: an agent that
\* answers with an offered action, with a tool call the engine rejects
\* (accept_trade with no trade to accept), or with nothing.  The
\* orchestrator's loop always takes its next step: the agent's answer
\* arrives, or getLLMAction gives up after MAX_RETRIES attempts.
FewCalls(s) == OfferedActions(s) \cup {[action |-> "accept_trade"]}

\* config.maxTurns of these games.
MaxTurnsFair == 1

\* More decisions than the turns of a game can take.
DecisionBudget == MAX_ACTIONS_PER_TURN * (MaxTurnsFair + 2)

InitFair ==
    /\ state = createInitialState(2, 4, 8)
    /\ actionCount = 0
    /\ pc = "run"
    /\ lastStep = "init"
    /\ steps = 0
    /\ rejects = 0
    /\ doublesRun = 0
    /\ twin = NoTwin
    /\ history = NoHistory

NextFair ==
    \/ StartTurnWithin(MaxTurnsFair)
    \/ GameOverWithin(MaxTurnsFair)
    \/ ResolveLanding
    \/ HandleAuction
    \/ HandleTradeResponse
    \/ Decide(FewCalls(state), DecisionBudget, DecisionBudget)
    \/ ForceEndTurn(DecisionBudget)
    \/ EndTurn

SpecFair == InitFair /\ [][NextFair]_vars /\ WF_vars(NextFair)

\* ------------------------------------------------------------ dice.ts

\* A 32-bit word is kept as two 16-bit halves, so that no intermediate
\* result leaves the range of the checker's integers.
Half == 65536

Word(hi, lo) == [hi |-> hi, lo |-> lo]

RECURSIVE Xor16(_, _, _)
Xor16(a, b, bits) ==
    IF bits = 0 THEN 0
    ELSE (((a % 2) + (b % 2)) % 2) + 2 * Xor16(a \div 2, b \div 2, bits - 1)

RECURSIVE Or16(_, _, _)
Or16(a, b, bits) ==
    IF bits = 0 THEN 0
    ELSE (IF (a % 2) + (b % 2) > 0 THEN 1 ELSE 0) + 2 * Or16(a \div 2, b \div 2, bits - 1)

\* x ^ y
Xor32(x, y) == Word(Xor16(x.hi, y.hi, 16), Xor16(x.lo, y.lo, 16))

\* c | x, for a constant c below 2^16
OrLow(c, x) == Word(x.hi, Or16(x.lo, c, 16))

\* (x + y) | 0
Add32(x, y) ==
    Word((x.hi + y.hi + ((x.lo + y.lo) \div Half)) % Half, (x.lo + y.lo) % Half)

\* x >>> k, for 0 < k < 16
Shr32(x, k) ==
    LET p == 2 ^ k
    IN Word(x.hi \div p, ((x.hi % p) * (Half \div p)) + (x.lo \div p))

\* (x * y) mod 2^16, for 16-bit x and y
MulMod16(x, y) == ((x * (y % 256)) + (((x * (y \div 256)) % 256) * 256)) % Half

\* Math.imul(a, b): the low 32 bits of the product
Imul(a, b) ==
    LET p1 == a.lo * (b.lo % 256)
        p2 == a.lo * (b.lo \div 256)
        low == p1 + ((p2 % 256) * 256)
        carry == (low \div Half) + (p2 \div 256)
    IN Word((carry + MulMod16(a.hi, b.lo) + MulMod16(a.lo, b.hi)) % Half, low % Half)

\* The one element of a singleton set.  {f(x) : x \in {e}} evaluates e
\* once, however often f uses x.
The(S) == CHOOSE x \in S : TRUE

\* One call of the mulberry32 closure: the new internal state s and the
\* 32-bit numerator of the returned fraction.
Mulberry32Mix(s1, t1) ==
    The({[s |-> s1, out |-> Xor32(t2, Shr32(t2, 14))] :
            t2 \in {Xor32(Add32(t1, Imul(Xor32(t1, Shr32(t1, 7)), OrLow(61, t1))), t1)}})

Mulberry32Step(s1) ==
    The({Mulberry32Mix(s1, t1) : t1 \in {Imul(Xor32(s1, Shr32(s1, 15)), OrLow(1, s1))}})

Mulberry32(s) ==
    The({Mulberry32Step(s1) : s1 \in {Add32(s, Word(27947, 31221))}})

\* Math.floor(rng() * n), for n up to 16, and the generator after the call
Draw(rng, n) ==
    The({[value |-> ((m.out.hi * n) + ((m.out.lo * n) \div Half)) \div Half,
          rng |-> [s |-> m.s]] : m \in {Mulberry32(rng.s)}})

\* The seeds given on the command line (config.seed; the empty tuple is
\* undefined, no seed given).
SeedInputs == {<<1>>, <<7>>, <<42>>}

\* The internal states Math.random can be in when the program starts: the
\* program does not set them.
EntropyInputs == {Word(0, 3), Word(5, 11)}

\* createRng(seed): the generators the call can return.  With a seed it is
\* the mulberry32 closure started at seed | 0 (seeds here are below 2^16);
\* without one it is Math.random, a generator in a state the program does
\* not choose.
createRng_Unseeded(seed) == {[s |-> e] : e \in EntropyInputs}

createRng(seed) ==
    IF seed = <<>> THEN {[s |-> e] : e \in EntropyInputs}
    ELSE {[s |-> Word(0, seed[1])]}

\* rollDice: two draws
rollDice(rng) ==
    The({The({[dice |-> <<die1.value + 1, die2.value + 1>>, rng |-> die2.rng] :
                 die2 \in {Draw(die1.rng, 6)}}) :
            die1 \in {Draw(rng, 6)}})

\* The Fisher-Yates loop of createShuffledDeck, from index i (0-based) down
\* to 1; indices is the 1-based sequence of the 0-based card indices.
RECURSIVE FisherYates(_, _, _)
FisherYates(indices, i, rng) ==
    IF i < 1 THEN [deck |-> indices, rng |-> rng]
    ELSE The({The({FisherYates(swapped, i - 1, d.rng) :
                      swapped \in {[indices EXCEPT ![i + 1] = indices[d.value + 1],
                                                   ![d.value + 1] = indices[i + 1]]}}) :
                 d \in {Draw(rng, i + 1)}})

createShuffledDeck(cards, rng) ==
    FisherYates([k \in 1..Len(cards) |-> k - 1], Len(cards) - 1, rng)

\* GameLoop's constructor: one generator shuffles both decks of the initial
\* state and is then handed to the engine.
NewGame(numPlayers, rng) ==
    The({The({[state |-> [createInitialState(numPlayers, 0, 0) EXCEPT
                             !.chanceDeck = chance.deck,
                             !.communityChestDeck = chest.deck],
               rng |-> chest.rng] :
                 chest \in {createShuffledDeck(COMMUNITY_CHEST_CARDS, chance.rng)}}) :
            chance \in {createShuffledDeck(CHANCE_CARDS, rng)}})

MaxStepsTwin == 3

\* applyAction on an engine that holds the generator rng: roll_dice takes
\* its roll from the generator, no other action draws from it.
EngineApply(s, rng, action) ==
    IF action.action = "roll_dice"
    THEN The({[result |-> applyAction(s, action, r.dice), rng |-> r.rng] :
                 r \in {rollDice(rng)}})
    ELSE [result |-> applyAction(s, action, <<1, 1>>), rng |-> rng]

\* The landing draws a card from a deck that has run out, which drawCard
\* reshuffles with the generator.
NeedsReshuffle(s) ==
    LET type == getSpace(CurPlayer(s).position).type
    IN \/ type = "chance" /\ s.chanceDeck = <<>>
       \/ type = "community_chest" /\ s.communityChestDeck = <<>>

\* Two engines and two initial states built with the same seed.
InitTwin ==
    /\ \E seed \in SeedInputs :
          \E rngA \in createRng(seed), rngB \in createRng(seed) :
             \E a \in {NewGame(2, rngA)}, b \in {NewGame(2, rngB)} :
                /\ state = a.state
                /\ twin = [state |-> b.state, rngA |-> a.rng, rngB |-> b.rng,
                           eventsA |-> <<>>, eventsB |-> <<>>]
    /\ actionCount = 0
    /\ pc = "run"
    /\ lastStep = "init"
    /\ steps = 0
    /\ rejects = 0
    /\ doublesRun = 0
    /\ history = NoHistory

\* The same action is applied by both engines.
TwinDecide ==
    /\ steps < MaxStepsTwin
    /\ state.turnPhase \notin {"post_roll_land", "auction"}
    /\ ~Corrupt(state)
    /\ \E action \in ToolCalls(state) :
          \E a \in {EngineApply(state, twin.rngA, action)},
             b \in {EngineApply(twin.state, twin.rngB, action)} :
             /\ state' = a.result.newState
             /\ twin' = [state |-> b.result.newState, rngA |-> a.rng, rngB |-> b.rng,
                         eventsA |-> a.result.events, eventsB |-> b.result.events]
             /\ lastStep' = IF a.result.success THEN action.action ELSE "rejected"
    /\ steps' = steps + 1
    /\ UNCHANGED <<actionCount, pc, rejects, doublesRun, history>>

\* Both engines resolve the landing.  No deck runs out within MaxStepsTwin
\* decisions, so the generators are not drawn from.
TwinLanding ==
    /\ state.turnPhase = "post_roll_land"
    /\ ~NeedsReshuffle(state) /\ ~NeedsReshuffle(twin.state)
    /\ LET a == autoResolveLanding(state, 0)
           b == autoResolveLanding(twin.state, 0)
       IN /\ state' = a.newState
          /\ twin' = [twin EXCEPT !.state = b.newState,
                                  !.eventsA = a.events, !.eventsB = b.events]
    /\ lastStep' = "auto_resolve"
    /\ UNCHANGED <<actionCount, pc, steps, rejects, doublesRun, history>>

\* Both engines resolve the auction with the same bids.
TwinAuction ==
    /\ state.turnPhase = "auction"
    /\ \E raw \in [getActivePlayers(state) -> BidInputs] :
          LET bids == [i \in getActivePlayers(state) |->
                          ClampBid(raw[i], state.players[i].balance)]
              a == resolveAuction(state, bids, CurPlayer(state).position)
              b == resolveAuction(twin.state, bids, CurPlayer(state).position)
          IN /\ state' = a.newState
             /\ twin' = [twin EXCEPT !.state = b.newState,
                                     !.eventsA = a.events, !.eventsB = b.events]
    /\ lastStep' = "resolve_auction"
    /\ UNCHANGED <<actionCount, pc, steps, rejects, doublesRun, history>>

NextTwin ==
    \/ TwinDecide
    \/ TwinLanding
    \/ TwinAuction

SpecTwin == InitTwin /\ [][NextTwin]_vars

\* ------------------------------------------------------------ sanitizeHistory

\* A ChatMessage: isArray tells an array of content blocks from a string
\* content (whose blocks are empty).  A block holds its type, the id of a
\* tool_use or the tool_use_id of a tool_result, and its content.
Message(role, isArray, content) == [role |-> role, isArray |-> isArray, content |-> content]

TextBlock == [type |-> "text", id |-> 0, content |-> "text"]

ToolUse(id) == [type |-> "tool_use", id |-> id, content |-> ""]

ToolResult(id, content) == [type |-> "tool_result", id |-> id, content |-> content]

\* ids of the blocks of one type, in the order of the blocks
BlockIds(msg, type) ==
    LET blocks == IF msg.isArray THEN msg.content ELSE <<>>
        picked == SelectSeq(blocks, LAMBDA b : b.type = type)
    IN [k \in DOMAIN picked |-> picked[k].id]

Acknowledged(ids) == [k \in DOMAIN ids |-> ToolResult(ids[k], "Acknowledged.")]

\* sanitizeFrom that leaves a following user message as it is.
RECURSIVE sanitizeFrom_NoPatch(_, _)
sanitizeFrom_NoPatch(messages, i) ==
    IF i > Len(messages) THEN <<>>
    ELSE LET msg == messages[i]
             toolUseIds == BlockIds(msg, "tool_use")
         IN IF msg.role # "assistant" \/ toolUseIds = <<>>
               \/ (i + 1 <= Len(messages) /\ messages[i + 1].role = "user"
                   /\ messages[i + 1].isArray)
            THEN <<msg>> \o sanitizeFrom_NoPatch(messages, i + 1)
            ELSE <<msg, Message("user", TRUE, Acknowledged(toolUseIds))>>
                 \o sanitizeFrom_NoPatch(messages, i + 1)

\* The loop of sanitizeHistory from index i (counted from 1).  Patching the
\* next message writes to the message object of the input list, which the
\* next iteration reads and pushes.
RECURSIVE sanitizeFrom(_, _)
sanitizeFrom(messages, i) ==
    IF i > Len(messages) THEN <<>>
    ELSE LET msg == messages[i]
             toolUseIds == BlockIds(msg, "tool_use")
         IN IF msg.role # "assistant" \/ toolUseIds = <<>>
            THEN <<msg>> \o sanitizeFrom(messages, i + 1)
            ELSE IF /\ i + 1 <= Len(messages)
                    /\ messages[i + 1].role = "user"
                    /\ messages[i + 1].isArray
            THEN LET next == messages[i + 1]
                     existingResultIds ==
                         {BlockIds(next, "tool_result")[k] :
                              k \in DOMAIN BlockIds(next, "tool_result")}
                     missingIds == SelectSeq(toolUseIds,
                                             LAMBDA id : id \notin existingResultIds)
                     patched == [messages EXCEPT
                                    ![i + 1].content = @ \o Acknowledged(missingIds)]
                 IN <<msg>> \o sanitizeFrom(patched, i + 1)
            ELSE <<msg, Message("user", TRUE, Acknowledged(toolUseIds))>>
                 \o sanitizeFrom(messages, i + 1)

sanitizeHistory(messages) == sanitizeFrom(messages, 1)

\* The message lists given to sanitizeHistory: up to MaxMessages messages of
\* either role, with a string content or one of these arrays of blocks.
MaxMessages == 3

ContentInputs ==
    { <<>>, <<TextBlock>>,
      <<ToolUse(1)>>, <<ToolUse(2)>>, <<ToolUse(1), ToolUse(2)>>,
      <<ToolResult(1, "ok")>>, <<ToolResult(2, "ok")>>,
      <<ToolResult(1, "ok"), ToolResult(2, "ok")>>,
      <<ToolResult(1, "ok"), TextBlock>> }

MessageInputs ==
    {Message(role, TRUE, content) : role \in {"user", "assistant"}, content \in ContentInputs}
    \cup {Message(role, FALSE, <<>>) : role \in {"user", "assistant"}}

HistoryInputs == UNION {[1..n -> MessageInputs] : n \in 0..MaxMessages}

InitHistory ==
    /\ history \in HistoryInputs
    /\ state = createInitialState(2, 4, 8)
    /\ actionCount = 0
    /\ pc = "run"
    /\ lastStep = "init"
    /\ steps = 0
    /\ rejects = 0
    /\ doublesRun = 0
    /\ twin = NoTwin

\* getLLMAction, handleAuction, handleTradeResponse (after a failed call)
\* and trimHistory replace a player's history by its repair.
Sanitize ==
    /\ lastStep = "init"
    /\ history' = sanitizeHistory(history)
    /\ lastStep' = "sanitize_history"
    /\ UNCHANGED <<state, actionCount, pc, steps, rejects, doublesRun, twin>>

SpecHistory == InitHistory /\ [][Sanitize]_vars
\* ------------------------------------------------------------ properties

\* The result of every tool call the agent can make in the current state.
Results(s) ==
    {[action |-> action, result |-> applyAction(s, action, roll)] :
        action \in ToolCalls(s), roll \in DiceInputs}

\* C1: at every decision point the well-behaved agent's game reaches, each
\* action getAvailableActions returns succeeds in applyAction, for every
\* position of its enumerated list.
C1_OfferedActionsSucceed ==
    DecisionPoint =>
        \A action \in OfferedActions(state) : \A roll \in RollsFor(action) :
            applyAction(state, action, roll).success

\* C1 witness: a decision point of the well-behaved agent's game at which
\* sell_house lists a position that applyAction refuses to sell.
C1_ListedSaleRejected ==
    /\ DecisionPoint
    /\ \E a \in getAvailableActions(state) :
          /\ a.action = "sell_house"
          /\ \E p \in a.enum :
                ~applyAction(state, [action |-> "sell_house", propertyPosition |-> p],
                             <<1, 1>>).success

\* C2: whenever applyAction returns success = false, the returned newState
\* equals the input state in every field, the returned event list is empty
\* and nothing was appended to the event log.
C2_RejectionLeavesState ==
    ~Corrupt(state) =>
        \A r \in Results(state) :
            ~r.result.success =>
                /\ r.result.newState = state
                /\ r.result.events = <<>>
                /\ r.result.logged = <<>>

\* C2 witness: the engine has rejected a decision of a jailed player who
\* cannot afford the fine.
C2_Witness ==
    /\ lastStep = "rejected"
    /\ CurPlayer(state).inJail
    /\ CurPlayer(state).balance < 50
    /\ ~applyAction(state, [action |-> "pay_jail_fine"], <<1, 1>>).success

\* C3: applyAction rejects an action kind that is not legal in the current
\* turn phase: roll_dice in post_action, buy_property and end_turn in
\* pre_roll, accept_trade outside trading, declare_bankruptcy outside
\* paying_debt.
C3_PhaseLegality ==
    (pc = "turn" /\ ~Corrupt(state)) =>
        \A r \in Results(state) :
            (\/ r.action.action = "roll_dice" /\ state.turnPhase = "post_action"
             \/ r.action.action \in {"buy_property", "end_turn"}
                    /\ state.turnPhase = "pre_roll"
             \/ r.action.action = "accept_trade" /\ state.turnPhase # "trading"
             \/ r.action.action = "declare_bankruptcy"
                    /\ state.turnPhase # "paying_debt")
            => ~r.result.success

\* C4: while a PendingDebt is recorded and the current player's balance is
\* negative, an end_turn does not succeed.
C4_NoEndTurnInDebt ==
    (pc = "turn" /\ ~Corrupt(state)
        /\ state.pendingDebt # <<>> /\ CurPlayer(state).balance < 0)
    => ~applyAction(state, [action |-> "end_turn"], <<1, 1>>).success

\* C4 witness: an end_turn, chosen or forced, has completed the turn of a
\* player with a PendingDebt and a negative balance.
C4_TurnCompletedInDebt ==
    /\ lastStep \in {"end_turn", "forced_end_turn"}
    /\ state.turnPhase = "turn_complete"
    /\ state.pendingDebt # <<>>
    /\ CurPlayer(state).balance < 0

\* C5: pendingDebt is non-null only if the current player, the debtor, has a
\* negative balance.
C5_DebtOnlyWhileNegative ==
    ~Corrupt(state) =>
        (state.pendingDebt # <<>> => CurPlayer(state).balance < 0)

\* C5 witness: a sale of a house has lifted the debtor's balance to zero or
\* more and the PendingDebt is still recorded.
C5_DebtSurvivesSale ==
    /\ lastStep = "sell_house"
    /\ state.pendingDebt # <<>>
    /\ CurPlayer(state).balance >= 0

\* The steps of the engine: applyAction, autoResolveLanding, resolveAuction.
EngineSteps ==
    {"roll_dice", "buy_property", "auction_property", "build_house", "build_hotel",
     "sell_house", "mortgage_property", "unmortgage_property", "trade_offer",
     "accept_trade", "reject_trade", "end_turn", "declare_bankruptcy",
     "use_get_out_of_jail_card", "pay_jail_fine", "submit_bid", "forced_end_turn",
     "auto_resolve", "resolve_auction"}

\* C6: after every engine step, if a non-bankrupt player's balance is
\* negative then a PendingDebt is recorded and the phase is paying_debt or
\* trading.
C6_NegativeBalanceIsDebt ==
    (lastStep \in EngineSteps /\ ~Corrupt(state)) =>
        ((\E i \in getActivePlayers(state) : state.players[i].balance < 0)
         => /\ state.pendingDebt # <<>>
            /\ state.turnPhase \in {"paying_debt", "trading"})

\* C6 witness: landing resolution has left a player other than the current
\* one with a negative balance and no PendingDebt.
C6_OtherPlayerInTheRed ==
    /\ lastStep = "auto_resolve"
    /\ state.pendingDebt = <<>>
    /\ \E i \in getActivePlayers(state) :
          i # Cur(state) /\ state.players[i].balance < 0

\* C7: a player whose isBankrupt flag is set owns no properties and has
\* balance 0.
C7_BankruptHoldsNothing ==
    \A i \in PlayerIdx(state) :
        state.players[i].isBankrupt =>
            /\ DOMAIN state.players[i].properties = {}
            /\ state.players[i].balance = 0

\* C7 witness: the acceptance of a trade has handed a lot to a bankrupt
\* player.
C7_BankruptGotALot ==
    /\ lastStep = "accept_trade"
    /\ \E i \in PlayerIdx(state) :
          /\ state.players[i].isBankrupt
          /\ DOMAIN state.players[i].properties # {}

\* Houses standing on lots that hold one to four of them, and hotels.
HousesOnBoard(s) ==
    SumOver([i \in PlayerIdx(s) |-> countHousesAndHotels(s, i).houses], PlayerIdx(s))

HotelsOnBoard(s) ==
    SumOver([i \in PlayerIdx(s) |-> countHousesAndHotels(s, i).hotels], PlayerIdx(s))

\* C8, as stated: bankHouses + the players' house counts + 5 x the hotels on
\* the board is at most 32, and the hotels on the board are at most 12.
C8_AsStated ==
    ~Corrupt(state) =>
        /\ state.bankHouses + HousesOnBoard(state) + 5 * HotelsOnBoard(state) <= 32
        /\ HotelsOnBoard(state) <= 12

\* C8, amended: bankHouses + the houses standing on the board is at most
\* 32 (a hotel holds none of the 32 houses), and the hotels on the board
\* are at most 12.
C8_HousePool ==
    ~Corrupt(state) =>
        /\ state.bankHouses + HousesOnBoard(state) <= 32
        /\ HotelsOnBoard(state) <= 12

\* C8 witness: a hotel has been built, its four houses are back in the
\* bank, and the stated sum exceeds 32.
C8_HotelBuilt ==
    /\ lastStep = "build_hotel"
    /\ HotelsOnBoard(state) >= 1
    /\ state.bankHouses + HousesOnBoard(state) + 5 * HotelsOnBoard(state) > 32

TotalBalance(s) ==
    SumOver([i \in PlayerIdx(s) |-> s.players[i].balance], PlayerIdx(s))

\* The results the engine can have returned in the step that is being taken,
\* for the kinds of step that move money.
StepResults ==
    LET candidates ==
            CASE lastStep' = "auto_resolve" ->
                   {autoResolveLanding(state, sh) : sh \in ShuffleInputs}
              [] lastStep' = "resolve_auction" ->
                   {resolveAuction(state,
                                   [i \in getActivePlayers(state) |->
                                       ClampBid(raw[i], state.players[i].balance)],
                                   CurPlayer(state).position) :
                       raw \in [getActivePlayers(state) -> BidInputs]}
              [] lastStep' \in {"accept_trade", "buy_property", "build_house",
                                "build_hotel", "unmortgage_property"} ->
                   {applyAction(state, a, <<1, 1>>) :
                       a \in {c \in ToolCalls(state) : c.action = lastStep'}}
              [] OTHER -> {}
    IN {r \in candidates : r.success /\ r.newState = state'}

EventsOf(r, types) == {r.events[k] : k \in {n \in DOMAIN r.events : r.events[n].type \in types}}

BetweenPlayers(r) == EventsOf(r, {"pay_rent", "transfer", "trade_completed"}) # {}

\* The amount an event carries, under whichever name.
HasAmount(e) == DOMAIN e \cap {"amount", "price", "cost"} # {}

EventAmount(e) ==
    IF "amount" \in DOMAIN e THEN e.amount
    ELSE IF "price" \in DOMAIN e THEN e.price
    ELSE e.cost

\* Only the payer's balance changes in the step, and it falls by amount.
OnlyPayerPays(payerId, amount) ==
    \A i \in PlayerIdx(state) :
        state'.players[i].balance =
            IF state.players[i].id = payerId THEN state.players[i].balance - amount
            ELSE state.players[i].balance

\* C9, as stated: a step that moves money between players leaves the sum of
\* the balances unchanged, and a payment to the bank (tax, purchase, auction
\* win, house or hotel, unmortgage) changes only the payer's balance, by the
\* amount in the emitted event.
C9_AsStated ==
    [][\A r \in StepResults :
          /\ BetweenPlayers(r) => TotalBalance(state') = TotalBalance(state)
          /\ \A e \in EventsOf(r, {"pay_tax", "buy_property", "auction_won",
                                    "build_house", "build_hotel", "unmortgage"}) :
                HasAmount(e) /\ OnlyPayerPays(e.playerId, EventAmount(e))]_vars

\* C9, amended: a step that moves money between players changes the sum of
\* the balances by exactly the Go salaries collected in it; a tax, purchase,
\* auction win or unmortgage changes only the payer's balance, by the amount
\* in the emitted event; a house or hotel changes only the builder's
\* balance, by the lot's house cost (its event carries no amount).
C9_MoneyAccounted ==
    [][\A r \in StepResults :
          /\ BetweenPlayers(r) =>
                TotalBalance(state') =
                    TotalBalance(state)
                    + 200 * Cardinality({k \in DOMAIN r.events :
                                            r.events[k].type = "pass_go"})
          /\ \A e \in EventsOf(r, {"pay_tax", "buy_property", "auction_won",
                                    "unmortgage"}) :
                HasAmount(e) /\ OnlyPayerPays(e.playerId, EventAmount(e))
          /\ \A e \in EventsOf(r, {"build_house", "build_hotel"}) :
                OnlyPayerPays(e.playerId, getSpace(e.position).houseCost)]_vars

\* C9 witness: a Chance card has sent the second player from space 36 past
\* Go to the first player's railroad, where the doubled rent was paid in the
\* same step as the salary was collected.
C9_RentAfterPassingGo ==
    /\ lastStep = "auto_resolve"
    /\ Cur(state) = 2
    /\ state.players[2].position = 5
    /\ state.players[2].balance = 5 + 200 - 50
    /\ state.players[1].balance >= 300 + 50

\* C10: when a non-jailed player's roll_dice yields doubles for the third
\* consecutive time in one turn, the roll does not move the player: the
\* position becomes 10, inJail true, doublesCount 0 and the phase
\* post_action, with no move or pass_go event, and an end_turn that follows
\* yields turn_complete.
C10_ThirdDoublesJails ==
    [][(/\ lastStep' = "roll_dice"
        /\ steps' = steps + 1
        /\ doublesRun' = 3
        /\ ~CurPlayer(state).inJail)
       => LET i == Cur(state)
              r == applyAction(state, [action |-> "roll_dice"], state'.lastDiceRoll)
          IN /\ state'.players[i].position = 10
             /\ state'.players[i].inJail
             /\ state'.players[i].doublesCount = 0
             /\ state'.turnPhase = "post_action"
             /\ EventsOf(r, {"move", "pass_go"}) = {}
             /\ applyAction(state', [action |-> "end_turn"], <<1, 1>>)
                    .newState.turnPhase = "turn_complete"]_vars

\* C10 witness: a player has rolled doubles for the third time in a row in
\* one turn and has been moved by the roll instead of being jailed.
C10_ThirdDoublesMoved ==
    /\ lastStep = "roll_dice"
    /\ doublesRun = 3
    /\ ~CurPlayer(state).inJail
    /\ state.turnPhase = "post_roll_land"


\* ------------------------------------------------------------ end of turn, trades

C12_TradeReturnsToPhase ==
    (DecisionPoint /\ state.turnPhase \in {"pre_roll", "paying_debt", "post_action"}) =>
        \A a \in {c \in OfferedActions(state) : c.action = "trade_offer"} :
            LET offered == applyAction(state, a, <<1, 1>>)
            IN offered.success =>
                  \A k \in {"accept_trade", "reject_trade"} :
                      LET resolved == applyAction(offered.newState, [action |-> k], <<1, 1>>)
                      IN resolved.success
                            => resolved.newState.turnPhase = state.turnPhase

\* C12 witness: the first decision of the turn was a trade offer, made in
\* pre_roll; its resolution has left the player in post_action without a
\* roll.
C12_RollLost ==
    /\ lastStep \in {"accept_trade", "reject_trade"}
    /\ actionCount = 1
    /\ state.turnPhase = "post_action"
    /\ state.lastDiceRoll = <<>>
    /\ \A a \in getAvailableActions(state) : a.action # "roll_dice"

\* ------------------------------------------------------------ auctions

\* The bids resolveAuction can be handed in the current state: those
\* handleAuction collects (one per non-bankrupt player, clamped to the
\* balance) and any map with a bid for every player.
AuctionBids ==
    {[i \in getActivePlayers(state) |-> ClampBid(raw[i], state.players[i].balance)] :
        raw \in [getActivePlayers(state) -> BidInputs]}
    \cup [PlayerIdx(state) -> BidInputs]

\* C13: resolveAuction gives the property to the non-bankrupt player with
\* the highest strictly positive bid, the earliest in player order among
\* equal highest bids, deducts that bid from the winner's balance and
\* changes no other player, and sets the phase to post_action; when every
\* bid is zero no player changes and an auction_no_bids event is emitted.
C13_HighestBidWins ==
    (InTurnLoop /\ state.turnPhase = "auction") =>
        \A bids \in AuctionBids :
            LET position == CurPlayer(state).position
                r == resolveAuction(state, bids, position)
                active == getActivePlayers(state)
                top == SetMax({bids[i] : i \in active})
            IN /\ r.success
               /\ r.newState.turnPhase = "post_action"
               /\ IF top > 0
                  THEN LET w == SetMin({i \in active : bids[i] = top})
                       IN /\ r.newState.players =
                                [state.players EXCEPT
                                    ![w].balance = @ - top,
                                    ![w].properties = MapSet(@, position, NewPropertyState)]
                          /\ r.events = <<[type |-> "auction_won",
                                           playerId |-> state.players[w].id,
                                           price |-> top]>>
                  ELSE /\ r.newState.players = state.players
                       /\ r.events = <<[type |-> "auction_no_bids"]>>

\* C13 witness: with one player bankrupt, an auction has been resolved in
\* favour of a player other than the one who landed on the lot.
C13_OtherPlayerWon ==
    /\ lastStep = "resolve_auction"
    /\ \E i \in PlayerIdx(state) : state.players[i].isBankrupt
    /\ getPropertyOwner(state, CurPlayer(state).position) \notin {0, Cur(state)}
    /\ state.turnPhase = "post_action"

\* ------------------------------------------------------------ bankruptcy

\* C14: declare_bankruptcy with a player as creditor leaves every property
\* the bankrupt player held with the creditor, house count and mortgage
\* flag unchanged, the creditor's balance grown by max(bankrupt's balance,
\* 0) and the creditor's jail-free cards by the bankrupt's; the bankrupt
\* player has no properties, balance 0, no cards and isBankrupt set, and
\* pendingDebt is cleared.
C14_AssetsToCreditor ==
    (pc = "turn" /\ ~Corrupt(state) /\ state.pendingDebt # <<>>
        /\ state.pendingDebt[1].creditor # "bank") =>
        LET i == Cur(state)
            c == FindPlayer(state, state.pendingDebt[1].creditor)
            r == applyAction(state, [action |-> "declare_bankruptcy"], <<1, 1>>)
            before == state.players
            after == r.newState.players
        IN /\ r.success
           /\ \A pos \in DOMAIN before[i].properties :
                 /\ pos \in DOMAIN after[c].properties
                 /\ after[c].properties[pos] = before[i].properties[pos]
           /\ after[c].balance =
                 before[c].balance + (IF before[i].balance > 0 THEN before[i].balance ELSE 0)
           /\ after[c].getOutOfJailCards =
                 before[c].getOutOfJailCards + before[i].getOutOfJailCards
           /\ (c # i => /\ after[i].properties = <<>>
                        /\ after[i].balance = 0
                        /\ after[i].getOutOfJailCards = 0)
           /\ after[i].isBankrupt
           /\ r.newState.pendingDebt = <<>>

\* C14 witness: the turn has passed to the creditor of a debt that is still
\* recorded; the creditor holds lots, and a bankruptcy declared now leaves
\* them with nobody.
C14_CreditorIsDebtor ==
    /\ DecisionPoint
    /\ state.pendingDebt # <<>>
    /\ state.pendingDebt[1].creditor = CurPlayer(state).id
    /\ DOMAIN CurPlayer(state).properties # {}
    /\ LET r == applyAction(state, [action |-> "declare_bankruptcy"], <<1, 1>>)
       IN r.success /\ \A pos \in DOMAIN CurPlayer(state).properties :
                           ~isPropertyOwned(r.newState, pos)

\* C15: winner is set exactly when one non-bankrupt player remains: winner
\* is non-null in the states with exactly one non-bankrupt player and in no
\* others, and it is then that player's id.
C15_WinnerIffOneRemains ==
    LET active == getActivePlayers(state)
    IN /\ (state.winner # "null") <=> (Cardinality(active) = 1)
       /\ \A i \in active : state.winner \in {"null", state.players[i].id}

\* C15 witness: the declared winner has gone bankrupt in the turn loop that
\* went on after the game was won; no non-bankrupt player remains.
C15_WinnerBankrupt ==
    /\ lastStep = "declare_bankruptcy"
    /\ state.winner # "null"
    /\ getActivePlayers(state) = {}
    /\ state.players[FindPlayer(state, state.winner)].isBankrupt

\* ------------------------------------------------------------ determinism, snapshots

WrittenContainers(before, r) ==
    LET after == r.newState
        fields == {"currentPlayerIndex", "turnPhase", "turnNumber", "lastDiceRoll",
                   "chanceDeck", "communityChestDeck", "chanceDiscardPile",
                   "communityChestDiscardPile", "bankHouses", "bankHotels",
                   "activeTrade", "pendingDebt", "winner"}
        scalars == {"position", "balance", "inJail", "jailTurns",
                    "getOutOfJailCards", "isBankrupt", "doublesCount"}
        idx == PlayerIdx(before)
    IN (IF \E f \in fields : after[f] # before[f] THEN {"GameState"} ELSE {})
       \cup (IF \E i \in idx : \E f \in scalars :
                    after.players[i][f] # before.players[i][f]
             THEN {"PlayerState"} ELSE {})
       \cup (IF \E i \in idx : DOMAIN after.players[i].properties
                                  # DOMAIN before.players[i].properties
             THEN {"properties"} ELSE {})
       \cup (IF \E i \in idx :
                    \E pos \in DOMAIN after.players[i].properties
                                  \cap DOMAIN before.players[i].properties :
                        after.players[i].properties[pos]
                            # before.players[i].properties[pos]
             THEN {"PropertyState"} ELSE {})
       \cup (IF r.logged # <<>> THEN {"gameLog"} ELSE {})

C18_AsStated ==
    state.turnPhase = "awaiting_roll" => CurPlayer(state).inJail

\* C18 witness: the current player has just paid the jail fine and awaits
\* the roll, out of jail.
C18_ReleasedAwaitingRoll ==
    /\ lastStep = "pay_jail_fine"
    /\ state.turnPhase = "awaiting_roll"
    /\ ~CurPlayer(state).inJail

\* C19: when the orchestrator starts the turn of a jailed player, the
\* actions getAvailableActions offers include roll_dice, include
\* pay_jail_fine exactly when the balance is at least 50, and include
\* use_get_out_of_jail_card exactly when the player holds such a card.
C19_JailOptionsOffered ==
    (pc = "turn" /\ lastStep = "start_turn" /\ CurPlayer(state).inJail) =>
        LET offered == {a.action : a \in getAvailableActions(state)}
        IN /\ "roll_dice" \in offered
           /\ "pay_jail_fine" \in offered <=> CurPlayer(state).balance >= 50
           /\ "use_get_out_of_jail_card" \in offered
                 <=> CurPlayer(state).getOutOfJailCards >= 1

\* C19 witness: a jailed player holding a Get Out of Jail Free card starts a
\* turn and is offered roll_dice but neither way of leaving jail.
C19_JailedOfferedOnlyRoll ==
    /\ pc = "turn"
    /\ lastStep = "start_turn"
    /\ CurPlayer(state).inJail
    /\ CurPlayer(state).getOutOfJailCards >= 1
    /\ LET offered == {a.action : a \in getAvailableActions(state)}
       IN /\ "roll_dice" \in offered
          /\ "pay_jail_fine" \notin offered
          /\ "use_get_out_of_jail_card" \notin offered

\* ------------------------------------------------------------ building

\* C20: build_house on position p succeeds exactly when p is a colour
\* property the current player owns unmortgaged, the player owns every
\* member of its colour group and none is mortgaged, p has fewer than 4
\* houses and as many as the least-built member of the group, the bank has
\* a house and the balance covers houseCost; on success p has one house
\* more, the balance is houseCost less, bankHouses is one less and nothing
\* else changes; otherwise the state is unchanged; and after a successful
\* build on a group without houses a second build on p fails.
C20_BuildHouse ==
    ~Corrupt(state) =>
        \A p \in 0..39 :
            LET i == Cur(state)
                player == state.players[i]
                owned == player.properties
                space == getSpace(p)
                build == [action |-> "build_house", propertyPosition |-> p]
                r == applyAction(state, build, <<1, 1>>)
                allowed ==
                    /\ space.type = "property"
                    /\ p \in DOMAIN owned
                    /\ ~owned[p].mortgaged
                    /\ \A g \in COLOR_GROUP_MEMBERS[space.colorGroup] :
                          /\ g \in DOMAIN owned
                          /\ ~owned[g].mortgaged
                          /\ owned[p].houses <= owned[g].houses
                    /\ owned[p].houses < 4
                    /\ state.bankHouses > 0
                    /\ player.balance >= space.houseCost
            IN /\ r.success <=> allowed
               /\ IF r.success
                  THEN /\ r.newState =
                            [state EXCEPT
                                !.players[i].properties[p].houses = @ + 1,
                                !.players[i].balance = @ - space.houseCost,
                                !.bankHouses = @ - 1]
                       /\ (\A g \in COLOR_GROUP_MEMBERS[space.colorGroup] :
                              owned[g].houses = 0)
                             => ~applyAction(r.newState, build, <<1, 1>>).success
                  ELSE r.newState = state

\* C20 witness: the current player has just built the first house of a
\* colour group, can afford another, and a second build on the same
\* property is refused.
C20_SecondBuildRefused ==
    /\ lastStep = "build_house"
    /\ \E p \in DOMAIN CurPlayer(state).properties :
          /\ getSpace(p).type = "property"
          /\ CurPlayer(state).properties[p].houses = 1
          /\ \A g \in COLOR_GROUP_MEMBERS[getSpace(p).colorGroup] \ {p} :
                /\ g \in DOMAIN CurPlayer(state).properties
                /\ CurPlayer(state).properties[g].houses = 0
          /\ CurPlayer(state).balance >= getSpace(p).houseCost
          /\ state.bankHouses > 0
          /\ ~applyAction(state, [action |-> "build_house", propertyPosition |-> p],
                          <<1, 1>>).success

\* ------------------------------------------------------------ rent

\* C21: landing on an unmortgaged railroad of another player charges 25,
\* 50, 100 or 200 for 1, 2, 3 or 4 unmortgaged railroads of the owner,
\* whatever the dice; the Chance card that moves the player to the nearest
\* railroad charges twice that.  The owner gains exactly the rent and the
\* payer loses exactly the rent (after the 200 of a pass_go of the card's
\* move); the pay_rent event carries the rent.
C21_RailroadRent ==
    (state.turnPhase = "post_roll_land" /\ ~Corrupt(state)) =>
        LET i == Cur(state)
            here == state.players[i].position
            cards == state.chanceDeck
            forced == /\ getSpace(here).type = "chance"
                      /\ cards # <<>>
                      /\ CHANCE_CARDS[Head(cards) + 1].type = "move_to_nearest"
                      /\ CHANCE_CARDS[Head(cards) + 1].spaceType = "railroad"
            target == IF forced THEN NearestAhead(RAILROAD_POSITIONS, here) ELSE here
            owner == getPropertyOwner(state, target)
            held == {pos \in {5, 15, 25, 35} :
                        /\ pos \in DOMAIN state.players[owner].properties
                        /\ ~state.players[owner].properties[pos].mortgaged}
            rent == <<25, 50, 100, 200>>[Cardinality(held)]
                        * (IF forced THEN 2 ELSE 1)
            salary == IF forced /\ target < here THEN 200 ELSE 0
        IN (/\ getSpace(target).type = "railroad"
            /\ owner \notin {0, i}
            /\ ~state.players[owner].properties[target].mortgaged) =>
               \A d1 \in 1..6 : \A d2 \in 1..6 :
                   LET r == autoResolveLanding(
                                [state EXCEPT !.lastDiceRoll = <<d1, d2>>], 0)
                   IN /\ r.success
                      /\ r.newState.players[i].balance
                            = state.players[i].balance + salary - rent
                      /\ r.newState.players[owner].balance
                            = state.players[owner].balance + rent
                      /\ \E k \in DOMAIN r.events :
                            /\ r.events[k].type = "pay_rent"
                            /\ r.events[k].amount = rent
                            /\ r.events[k].payerId = state.players[i].id
                            /\ r.events[k].ownerId = state.players[owner].id

\* C21 witness: the Chance card has taken a player past Go to a railroad of
\* an owner with three unmortgaged railroads, and the rent of 200 is paid.
C21_CardRentOnThreeRailroads ==
    /\ lastStep = "auto_resolve"
    /\ state.chanceDiscardPile = <<4>>
    /\ state.lastDiceRoll = <<1, 2>>
    /\ CurPlayer(state).position = 5
    /\ CurPlayer(state).balance = 120
    /\ countPlayerRailroads(state, 2) = 3
    /\ state.players[2].balance = 1700

\* ------------------------------------------------------------ debts

\* C22: a successful mortgage_property in paying_debt that leaves the
\* current player's balance at zero or more clears pendingDebt and sets
\* the phase to post_action; one that leaves it negative keeps pendingDebt
\* and the phase paying_debt.
C22_MortgageSettlesDebt ==
    (state.turnPhase = "paying_debt" /\ ~Corrupt(state)) =>
        \A p \in 0..39 :
            LET r == applyAction(state,
                         [action |-> "mortgage_property", propertyPosition |-> p],
                         <<1, 1>>)
            IN r.success =>
                  IF r.newState.players[Cur(state)].balance >= 0
                  THEN /\ r.newState.pendingDebt = <<>>
                       /\ r.newState.turnPhase = "post_action"
                  ELSE /\ r.newState.pendingDebt = state.pendingDebt
                       /\ r.newState.turnPhase = "paying_debt"

\* C22 witness: a debtor with a negative balance in paying_debt has a
\* mortgage that lifts the balance to zero or more, and applyAction clears
\* the debt on it.
C22_MortgageClearsDebt ==
    /\ state.turnPhase = "paying_debt"
    /\ state.pendingDebt # <<>>
    /\ CurPlayer(state).balance < 0
    /\ \E p \in DOMAIN CurPlayer(state).properties :
          LET r == applyAction(state,
                       [action |-> "mortgage_property", propertyPosition |-> p],
                       <<1, 1>>)
          IN /\ r.success
             /\ r.newState.players[Cur(state)].balance >= 0
             /\ r.newState.pendingDebt = <<>>
             /\ r.newState.turnPhase = "post_action"

\* C23: a successful sell_house, or an accepted trade, made while a debt is
\* pending and leaving the debtor (the current player) with a balance of
\* zero or more clears the debt: pendingDebt is null afterwards.
C23_SaleOrTradeClearsDebt ==
    (state.pendingDebt # <<>> /\ ~Corrupt(state)) =>
        \A c \in Results(state) :
            (/\ c.action.action \in {"sell_house", "accept_trade"}
             /\ c.result.success
             /\ c.result.newState.players[Cur(state)].balance >= 0)
                => c.result.newState.pendingDebt = <<>>

\* C23 witness: a trade has just been accepted while the debtor's balance
\* is positive, and the debt is still pending in paying_debt.
C23_DebtSurvivesTrade ==
    /\ lastStep = "accept_trade"
    /\ state.turnPhase = "paying_debt"
    /\ state.pendingDebt # <<>>
    /\ CurPlayer(state).balance > 0

\* ------------------------------------------------------------ trading

\* The trade offers with non-negative money amounts the current player can
\* put together in state s: to any other player, offering at most one own
\* lot and requesting at most one of the other's, each side with 0 or one
\* of the money inputs.
PlainOffers(s) ==
    LET i == Cur(s)
        lots(k) == {{}} \cup {{p} : p \in DOMAIN s.players[k].properties}
    IN UNION {{Offer(s.players[i].id, s.players[o].id, op, om, rp, rm) :
                   op \in lots(i), om \in {0} \cup MoneyInputs,
                   rp \in lots(o), rm \in {0} \cup MoneyInputs}
              : o \in PlayerIdx(s) \ {i}}

\* C24: in paying_debt with a negative balance, a debtor who owns a lot
\* without houses (and has a non-bankrupt player to trade with) has a
\* trade_offer with non-negative money amounts that applyAction accepts,
\* putting the game in the trading phase.
C24_DebtorCanOfferTrade ==
    (/\ state.turnPhase = "paying_debt"
     /\ ~Corrupt(state)
     /\ CurPlayer(state).balance < 0
     /\ \E p \in DOMAIN CurPlayer(state).properties :
           CurPlayer(state).properties[p].houses = 0
     /\ \E o \in PlayerIdx(state) \ {Cur(state)} : ~state.players[o].isBankrupt) =>
        \E offer \in PlainOffers(state) :
            LET r == applyAction(state, [action |-> "trade_offer", offer |-> offer],
                                 <<1, 1>>)
            IN r.success /\ r.newState.turnPhase = "trading"

\* C24 witness: a debtor with a negative balance in paying_debt is offered
\* trade_offer for a lot without houses, and applyAction rejects every
\* offer with non-negative money amounts.
C24_EveryOfferRejected ==
    /\ state.turnPhase = "paying_debt"
    /\ ~Corrupt(state)
    /\ CurPlayer(state).balance < 0
    /\ \E a \in getAvailableActions(state) :
          a.action = "trade_offer" /\ a.enum # {}
    /\ \A offer \in PlainOffers(state) :
          ~applyAction(state, [action |-> "trade_offer", offer |-> offer],
                       <<1, 1>>).success

C26_SellHouse ==
    ~Corrupt(state) =>
        \A p \in 0..39 :
            LET i == Cur(state)
                owned == state.players[i].properties
                space == getSpace(p)
                r == applyAction(state,
                         [action |-> "sell_house", propertyPosition |-> p], <<1, 1>>)
                mine == space.type = "property" /\ p \in DOMAIN owned
                refunded == [state EXCEPT
                                !.players[i].balance = @ + (space.houseCost \div 2)]
            IN /\ (mine /\ owned[p].houses = 5) =>
                     /\ r.success
                     /\ r.newState =
                           IF state.bankHouses >= 4
                           THEN [refunded EXCEPT
                                    !.players[i].properties[p].houses = 4,
                                    !.bankHotels = @ + 1,
                                    !.bankHouses = @ - 4]
                           ELSE [refunded EXCEPT
                                    !.players[i].properties[p].houses = 0,
                                    !.bankHotels = @ + 1]
               /\ r.success =>
                     /\ mine
                     /\ owned[p].houses \in 1..5
                     /\ owned[p].houses < 5 =>
                           /\ \A g \in COLOR_GROUP_MEMBERS[space.colorGroup] :
                                 /\ g \in DOMAIN owned
                                 /\ owned[g].houses <= owned[p].houses
                           /\ r.newState =
                                 [refunded EXCEPT
                                     !.players[i].properties[p].houses = @ - 1,
                                     !.bankHouses = @ + 1]

\* C26 witness: with fewer than four houses in the bank a hotel has just
\* been sold outright: the lot is bare, its neighbour still has a hotel,
\* and the bank has eleven hotels.
C26_HotelSoldOutright ==
    /\ lastStep = "sell_house"
    /\ state.bankHouses < 4
    /\ state.bankHotels = 11
    /\ \E p \in DOMAIN CurPlayer(state).properties :
          /\ getSpace(p).type = "property"
          /\ CurPlayer(state).properties[p].houses = 0
          /\ \E g \in COLOR_GROUP_MEMBERS[getSpace(p).colorGroup] \ {p} :
                /\ g \in DOMAIN CurPlayer(state).properties
                /\ CurPlayer(state).properties[g].houses = 5

\* ------------------------------------------------------------ landing

\* C27: from post_roll_land on any space, with any card on top of either
\* deck, the phase has left post_roll_land after at most three calls of
\* autoResolveLanding (a Chance card back to Community Chest, a Community
\* Chest card to Go, Go): card moves never chain further.
C27_LandingSettles ==
    /\ steps <= 3
    /\ steps = 3 => state.turnPhase # "post_roll_land"

\* C27 witness: the third call in a row has settled a player on Go, sent
\* back from the last Chance space to Community Chest and on to Go.
C27_SettledAtThirdCall ==
    /\ lastStep = "auto_resolve"
    /\ steps = 3
    /\ CurPlayer(state).position = 0
    /\ state.turnPhase = "post_action"
    /\ state.chanceDiscardPile = <<9>>
    /\ state.communityChestDiscardPile = <<0>>

\* The effect of the card that resolveCardDraw draws for the player on a
\* card space.
DrawnCard(s, shuffle) ==
    IF getSpace(CurPlayer(s).position).type = "chance"
    THEN drawCard(s.chanceDeck, s.chanceDiscardPile, CHANCE_CARDS, shuffle).card
    ELSE drawCard(s.communityChestDeck, s.communityChestDiscardPile,
                  COMMUNITY_CHEST_CARDS, shuffle).card

OnCardSpace(s) ==
    /\ s.turnPhase = "post_roll_land"
    /\ getSpace(CurPlayer(s).position).type \in {"chance", "community_chest"}

\* C28 as stated: once a drawn card with a movement effect (move_to,
\* move_back or move_to_nearest) has been applied, the phase is
\* post_roll_land.
C28_AsStated ==
    \A shuffle \in ShuffleInputs :
        (/\ OnCardSpace(state)
         /\ DrawnCard(state, shuffle).type \in {"move_to", "move_back", "move_to_nearest"})
        => autoResolveLanding(state, shuffle).newState.turnPhase = "post_roll_land"

\* C28: a drawn move_to or move_back card leaves the phase post_roll_land;
\* a drawn move_to_nearest card resolves its destination itself: the space
\* is a railroad or utility, the phase is purchase_decision when it is
\* unowned, paying_debt when the rent charged to the mover left the balance
\* negative, and post_action otherwise; never post_roll_land.
C28_MovementCardPhase ==
    \A shuffle \in ShuffleInputs :
        OnCardSpace(state) =>
            LET card == DrawnCard(state, shuffle)
                after == autoResolveLanding(state, shuffle).newState
                i == Cur(state)
                dest == after.players[i].position
                owner == getPropertyOwner(after, dest)
            IN /\ card.type \in {"move_to", "move_back"}
                    => after.turnPhase = "post_roll_land"
               /\ card.type = "move_to_nearest"
                    => /\ getSpace(dest).type = card.spaceType
                       /\ after.turnPhase =
                            IF owner = 0 THEN "purchase_decision"
                            ELSE IF after.players[i].balance < 0 THEN "paying_debt"
                            ELSE "post_action"
                       /\ after.turnPhase = "paying_debt"
                            => after.pendingDebt =
                                 Debt(after.players[owner].id,
                                      0 - after.players[i].balance)

\* C28 witness: the nearest-railroad card has moved the player from the last
\* Chance space to Reading Railroad, charged the doubled rent, and left the
\* player in debt to the owner, with no further landing to resolve.
C28_NearestRailroadCharged ==
    /\ lastStep = "auto_resolve"
    /\ steps = 1
    /\ state.chanceDiscardPile = <<4>>
    /\ CurPlayer(state).position = 5
    /\ state.turnPhase = "paying_debt"
    /\ state.pendingDebt # <<>>

\* ------------------------------------------------------------ decks

SeqRange(seq) == {seq[k] : k \in DOMAIN seq}

JailFreeIndices(cards) ==
    {k - 1 : k \in {n \in DOMAIN cards : cards[n].type = "get_out_of_jail_free"}}

\* deck and discard pile are disjoint and hold no index twice, and the only
\* cards of the table in neither are jail-free cards.
DeckSound(deck, discardPile, cards) ==
    /\ Cardinality(SeqRange(deck \o discardPile)) = Len(deck) + Len(discardPile)
    /\ SeqRange(deck \o discardPile) \subseteq 0..15
    /\ (0..15) \ SeqRange(deck \o discardPile) \subseteq JailFreeIndices(cards)
    /\ SeqRange(discardPile) \cap JailFreeIndices(cards) = {}

\* A draw from an empty deck: the drawn card comes from the old discard
\* pile, the new deck holds each of the pile's other cards once, and the new
\* discard pile holds the drawn card alone.
RefillSound(discardPile, cards, shuffle) ==
    LET result == drawCard(<<>>, discardPile, cards, shuffle)
        drawn == SeqRange(discardPile) \ SeqRange(result.newDeck)
    IN /\ Len(result.newDeck) = Len(discardPile) - 1
       /\ Cardinality(SeqRange(result.newDeck)) = Len(result.newDeck)
       /\ SeqRange(result.newDeck) \subseteq SeqRange(discardPile)
       /\ Cardinality(drawn) = 1
       /\ \A index \in drawn :
             /\ result.card = cards[index + 1]
             /\ result.newDiscardPile =
                    IF result.card.type = "get_out_of_jail_free" THEN <<>>
                    ELSE <<index>>

\* C29: in every reachable state each deck and its discard pile are
\* disjoint, hold no index twice and together hold every card of the
\* 16-card table except drawn Get-Out-of-Jail-Free cards; a draw that finds
\* the deck empty makes the new deck a permutation of the old discard pile
\* minus the drawn card, and the discard pile the drawn card alone.
C29_DecksSound ==
    /\ DeckSound(state.chanceDeck, state.chanceDiscardPile, CHANCE_CARDS)
    /\ DeckSound(state.communityChestDeck, state.communityChestDiscardPile,
                 COMMUNITY_CHEST_CARDS)
    /\ \A shuffle \in ShuffleInputs :
          /\ state.chanceDeck = <<>>
                => /\ RefillSound(state.chanceDiscardPile, CHANCE_CARDS, shuffle)
                   /\ LET after == resolveCardDraw(state, Cur(state), "chance",
                                                   <<>>, shuffle).newState
                          result == drawCard(<<>>, state.chanceDiscardPile,
                                             CHANCE_CARDS, shuffle)
                      IN /\ after.chanceDeck = result.newDeck
                         /\ after.chanceDiscardPile = result.newDiscardPile
          /\ state.communityChestDeck = <<>>
                => /\ RefillSound(state.communityChestDiscardPile,
                                  COMMUNITY_CHEST_CARDS, shuffle)
                   /\ LET after == resolveCardDraw(state, Cur(state), "community_chest",
                                                   <<>>, shuffle).newState
                          result == drawCard(<<>>, state.communityChestDiscardPile,
                                             COMMUNITY_CHEST_CARDS, shuffle)
                      IN /\ after.communityChestDeck = result.newDeck
                         /\ after.communityChestDiscardPile = result.newDiscardPile

\* C29 witness: the seventeenth Chance draw has found the deck empty and
\* reshuffled the fifteen discarded cards: fourteen are in the deck, the
\* drawn one is the discard pile, and the jail-free card is in neither.
C29_ChanceDeckRefilled ==
    /\ lastStep = "auto_resolve"
    /\ Len(state.chanceDeck) = 14
    /\ Len(state.chanceDiscardPile) = 1
    /\ 8 \notin SeqRange(state.chanceDeck \o state.chanceDiscardPile)
    /\ CurPlayer(state).getOutOfJailCards >= 1

\* ------------------------------------------------------------ jail rolls

\* C30: a jailed player's roll that is not doubles leaves the player in
\* jail with jailTurns one higher, except at jailTurns 2, the third failure
\* in a row, when the player is released, charged 50 dollars and moved by
\* the roll; jailTurns is in 0..2 in every state, so that no player is still
\* jailed after the third roll attempt.
C30_JailRolls ==
    /\ \A i \in PlayerIdx(state) : state.players[i].jailTurns \in 0..2
    /\ CurPlayer(state).inJail =>
         \A d1 \in 1..6, d2 \in 1..6 :
            LET i == Cur(state)
                before == state.players[i]
                result == applyAction(state, [action |-> "roll_dice"], <<d1, d2>>)
                player == result.newState.players[i]
            IN /\ result.success
               /\ (d1 # d2 /\ before.jailTurns < 2)
                     => /\ player.inJail
                        /\ player.jailTurns = before.jailTurns + 1
                        /\ player.position = before.position
                        /\ player.balance = before.balance
               /\ (d1 # d2 /\ before.jailTurns = 2)
                     => /\ ~player.inJail
                        /\ player.jailTurns = 0
                        /\ player.balance = before.balance - 50
                        /\ player.position = (before.position + d1 + d2) % 40
               /\ d1 = d2 => ~player.inJail /\ player.jailTurns = 0

\* C30 witness: in the player's third turn in jail the roll failed for the
\* third time; the player has paid 50 dollars and stands three spaces
\* beyond the jail.
C30_ReleasedAtThirdFailure ==
    /\ lastStep = "roll_dice"
    /\ state.turnNumber = 5
    /\ state.lastDiceRoll = <<1, 2>>
    /\ ~CurPlayer(state).inJail
    /\ CurPlayer(state).position = 13
    /\ CurPlayer(state).balance = 150
    /\ CurPlayer(state).jailTurns = 0

\* ------------------------------------------------------------ turn order

\* The player after player i in cyclic order who is not bankrupt in s.
NextInOrder(s, i) == SkipBankrupt(s, (i % Len(s.players)) + 1, 0)

\* C31: turns pass in cyclic order skipping bankrupt players: whenever the
\* current player changes it is to the next non-bankrupt player, no
\* bankrupt player is current inside the turn loop, and the turn is never
\* advanced past a non-bankrupt player who has just received it from a
\* bankruptcy and has not acted.
C31_TurnOrder ==
    [][/\ Cur(state') # Cur(state) => Cur(state') = NextInOrder(state', Cur(state))
       /\ InTurnLoop' => ~CurPlayer(state').isBankrupt
       /\ (/\ pc = "turn"
           /\ lastStep' = "advance_turn"
           /\ state.winner = "null"
           /\ ~CurPlayer(state).isBankrupt)
          => lastStep # "declare_bankruptcy"]_vars

\* C31 witness: the first player's bankruptcy was the twentieth decision of
\* the turn; it made the second player current, in pre_roll, and the turn
\* loop is over, so that advanceTurn passes the turn on to the third player.
C31_SecondPlayerPassedOver ==
    /\ pc = "turn"
    /\ actionCount = MAX_ACTIONS_PER_TURN
    /\ lastStep = "declare_bankruptcy"
    /\ state.players[1].isBankrupt
    /\ state.players[1].position = 39
    /\ Cur(state) = 2
    /\ state.turnPhase = "pre_roll"
    /\ state.winner = "null"
    /\ ENABLED EndTurn

\* ------------------------------------------------------------ termination

\* C32: every turn terminates whatever the agent answers: executeTurn takes
\* at most MAX_ACTIONS_PER_TURN decisions, every turn is left, leaving it
\* raises turnNumber and, unless the game is won, passes to another player,
\* a turn is started only while no winner exists and turnNumber is at most
\* maxTurns, and run ends.
C32_TurnsTerminate ==
    /\ [](actionCount <= MAX_ACTIONS_PER_TURN)
    /\ [][pc = "turn" /\ pc' # "turn"
            => /\ state'.turnNumber > state.turnNumber
               /\ state'.winner = "null" => Cur(state') # Cur(state)]_vars
    /\ [][pc = "run" /\ pc' = "turn"
            => state.winner = "null" /\ state.turnNumber <= MaxTurnsFair]_vars
    /\ (pc = "turn") ~> (pc # "turn")
    /\ <>(pc = "done")

\* C32 witness: the twentieth decision of a turn was taken without the
\* turn being complete; the loop is over and advanceTurn ends the turn.
C32_TurnCutAtTwenty ==
    /\ pc = "turn"
    /\ actionCount = MAX_ACTIONS_PER_TURN
    /\ state.turnPhase \notin {"turn_complete", "pre_roll"}
    /\ ENABLED EndTurn
    /\ ~ENABLED Decide(FewCalls(state), DecisionBudget, DecisionBudget)

\* ------------------------------------------------------------ history repair

IdSet(msg, type) == {BlockIds(msg, type)[k] : k \in DOMAIN BlockIds(msg, type)}

\* Every assistant message with tool_use blocks is immediately followed by a
\* user message with a tool_result for each of its ids.
ToolUsesAnswered(messages) ==
    \A k \in DOMAIN messages :
        (messages[k].role = "assistant" /\ IdSet(messages[k], "tool_use") # {})
        => /\ k + 1 <= Len(messages)
           /\ messages[k + 1].role = "user"
           /\ messages[k + 1].isArray
           /\ IdSet(messages[k], "tool_use") \subseteq IdSet(messages[k + 1], "tool_result")

\* b is message a, possibly with tool_result blocks appended.
SameMessage(a, b) ==
    /\ a.role = b.role
    /\ a.isArray = b.isArray
    /\ Len(a.content) <= Len(b.content)
    /\ SubSeq(b.content, 1, Len(a.content)) = a.content

\* The messages of original from index i on occur in result from index k
\* on, in the same order.
RECURSIVE KeepsOrder(_, _, _, _)
KeepsOrder(original, i, result, k) ==
    IF i > Len(original) THEN TRUE
    ELSE IF k > Len(result) THEN FALSE
    ELSE IF SameMessage(original[i], result[k])
    THEN KeepsOrder(original, i + 1, result, k + 1)
    ELSE KeepsOrder(original, i, result, k + 1)

\* C33: in the result of sanitizeHistory every assistant message with
\* tool_use blocks is immediately followed by a user message holding a
\* tool_result for each of its ids, the original messages keep their
\* order, and a history that satisfies this already is returned unchanged.
C33_ToolUsesAnswered ==
    lastStep = "init" =>
        LET result == sanitizeHistory(history)
        IN /\ ToolUsesAnswered(result)
           /\ KeepsOrder(history, 1, result, 1)
           /\ ToolUsesAnswered(history) => result = history

\* C33 witness: a history of an assistant message with two tool_use blocks,
\* a user message answering the first, and an assistant message with a
\* tool_use at the end has been repaired: the second result was appended
\* and a synthetic answer added.
C33_PatchedAndInserted ==
    /\ lastStep = "sanitize_history"
    /\ Len(history) = 4
    /\ history[1] = Message("assistant", TRUE, <<ToolUse(1), ToolUse(2)>>)
    /\ history[2] = Message("user", TRUE, <<ToolResult(1, "ok"),
                                            ToolResult(2, "Acknowledged.")>>)
    /\ history[3] = Message("assistant", TRUE, <<ToolUse(1)>>)
    /\ history[4] = Message("user", TRUE, <<ToolResult(1, "Acknowledged.")>>)

\* The tool_result ids of message k that the message before it does not ask
\* for.
Orphans(messages, k) ==
    IF messages[k].role # "user" THEN {}
    ELSE IF k > 1 /\ messages[k - 1].role = "assistant"
    THEN IdSet(messages[k], "tool_result") \ IdSet(messages[k - 1], "tool_use")
    ELSE IdSet(messages[k], "tool_result")

\* C34: the result of sanitizeHistory contains no orphaned tool_result: no
\* user message has a tool_result without a matching tool_use in the
\* assistant message immediately before it.
C34_NoOrphanedResult ==
    lastStep = "init" =>
        LET result == sanitizeHistory(history)
        IN \A k \in DOMAIN result : Orphans(result, k) = {}

\* C34 witness: a history that starts with a user message of one
\* tool_result has been repaired, and the message is still there.
C34_OrphanKept ==
    /\ lastStep = "sanitize_history"
    /\ Len(history) = 1
    /\ history[1] = Message("user", TRUE, <<ToolResult(1, "ok")>>)
    /\ Orphans(history, 1) = {1}

\* C35: in every reachable state bankHouses plus the houses standing on
\* lots with one to four houses is 32, bankHotels plus the lots with a hotel
\* is 12, and the two bank counters are within 0..32 and 0..12.
C35_SupplyConserved ==
    ~Corrupt(state) =>
        /\ state.bankHouses + HousesOnBoard(state) = 32
        /\ state.bankHotels + HotelsOnBoard(state) = 12
        /\ state.bankHouses \in 0..32
        /\ state.bankHotels \in 0..12

\* C35 witness: a declaration of bankruptcy whose recorded creditor was the
\* declaring player has taken a house off the board without returning it to
\* the bank.
C35_HouseLost ==
    /\ lastStep = "declare_bankruptcy"
    /\ ~Corrupt(state)
    /\ state.players[2].isBankrupt
    /\ state.bankHouses + HousesOnBoard(state) < 32

\* C36: a successful declare_bankruptcy never increases the sum of the
\* balances, and over a rent landing that leaves a debt followed by the
\* debtor's declare_bankruptcy the creditor's balance grows by at most the
\* balance the debtor had before the landing.
C36_NoMoneyFromBankruptcy ==
    (InTurnLoop /\ ~Corrupt(state)) =>
        /\ LET r == applyAction(state, [action |-> "declare_bankruptcy"], <<1, 1>>)
           IN r.success => TotalBalance(r.newState) <= TotalBalance(state)
        /\ state.turnPhase = "post_roll_land" =>
              \A sh \in ShuffleInputs :
                 LET landed == autoResolveLanding(state, sh)
                     debt == landed.newState.pendingDebt
                     r == applyAction(landed.newState,
                                      [action |-> "declare_bankruptcy"], <<1, 1>>)
                 IN (/\ EventsOf(landed, {"pay_rent"}) # {}
                     /\ debt # <<>>
                     /\ r.success)
                    => LET c == FindPlayer(state, debt[1].creditor)
                       IN r.newState.players[c].balance - state.players[c].balance
                             <= CurPlayer(state).balance

\* C36 witness: the first player, with 80, has landed on the second player's
\* lot 39, owed 100 and declared bankruptcy; the second player holds 1600
\* of the 1580 the two had.
C36_CreditorPaidInFull ==
    /\ lastStep = "declare_bankruptcy"
    /\ state.players[1].isBankrupt
    /\ state.players[1].position = 39
    /\ state.players[2].balance = 1600
    /\ TotalBalance(state) = 1600

\* C37: once winner is non-null getAvailableActions returns no actions and
\* no step changes a balance, a property map or a position.
C37_GameOverIsFinal ==
    /\ [](state.winner # "null" => getAvailableActions(state) = {})
    /\ [][state.winner # "null" =>
             \A i \in PlayerIdx(state) :
                /\ state'.players[i].balance = state.players[i].balance
                /\ state'.players[i].properties = state.players[i].properties
                /\ state'.players[i].position = state.players[i].position]_vars

\* C37 witness: the declared winner has rolled the dice and moved in the turn
\* in which the other player went bankrupt.
C37_WinnerRolled ==
    /\ lastStep = "roll_dice"
    /\ state.winner # "null"
    /\ state.winner = CurPlayer(state).id
    /\ ~CurPlayer(state).isBankrupt
    /\ state.turnPhase = "post_roll_land"

\* C38: in every reachable state no board position is in the property maps
\* of two players, and every position in a property map is a property, a
\* railroad or a utility.
C38_OneOwnerEach ==
    /\ \A i, j \in PlayerIdx(state) :
          i # j => DOMAIN state.players[i].properties
                       \cap DOMAIN state.players[j].properties = {}
    /\ \A i \in PlayerIdx(state) : \A pos \in DOMAIN state.players[i].properties :
          isOwnableSpace(getSpace(pos))

\* C38 witness: an auction held on a lot that already had an owner has put
\* the lot in a second player's property map.
C38_AuctionedOwnedLot ==
    /\ lastStep = "resolve_auction"
    /\ \E i, j \in PlayerIdx(state) :
          /\ i # j
          /\ CurPlayer(state).position \in DOMAIN state.players[i].properties
          /\ CurPlayer(state).position \in DOMAIN state.players[j].properties

\* C39: in every reachable state, within a colour group wholly owned by one
\* player the improvement levels (0 to 4 houses, 5 for a hotel) of any two
\* of its lots differ by at most 1.
C39_EvenlyBuilt ==
    ~Corrupt(state) =>
        \A i \in PlayerIdx(state) : \A p \in DOMAIN state.players[i].properties :
            (/\ getSpace(p).type = "property"
             /\ playerOwnsColorGroup(state, i, COLOR_GROUP_MEMBERS[getSpace(p).colorGroup]))
            => \A g \in COLOR_GROUP_MEMBERS[getSpace(p).colorGroup] :
                  state.players[i].properties[p].houses
                     - state.players[i].properties[g].houses <= 1

\* C39 witness: a hotel has been built on a lot whose colour group, wholly
\* owned by the builder, has a lot with three houses.
C39_HotelBesideThreeHouses ==
    /\ lastStep = "build_hotel"
    /\ ~Corrupt(state)
    /\ \E p \in DOMAIN CurPlayer(state).properties :
          /\ getSpace(p).type = "property"
          /\ CurPlayer(state).properties[p].houses = 5
          /\ playerOwnsColorGroup(state, Cur(state),
                                  COLOR_GROUP_MEMBERS[getSpace(p).colorGroup])
          /\ \E g \in COLOR_GROUP_MEMBERS[getSpace(p).colorGroup] :
                CurPlayer(state).properties[g].houses = 3

\* A roll of the dice has just moved the current player: handleRollDice
\* leaves post_roll_land after every move, or paying_debt when the fine of
\* the third failed jail roll was not covered; a roll that does not move
\* leaves post_action.
MovedByRoll ==
    /\ lastStep = "roll_dice"
    /\ state.turnPhase \in {"post_roll_land", "paying_debt"}

\* C40: every move caused by a roll of the dice is followed by the landing
\* resolution of the destination before the turn ends. The engine resolves
\* a landing only in post_roll_land and every later move replaces the
\* destination, so the orchestrator's step after the move has to be
\* autoResolveLanding.
C40_MoveThenLanding ==
    [][MovedByRoll => lastStep' = "auto_resolve"]_vars

\* C40 witness: the third failed jail roll has charged the fine to a player
\* with 30 dollars and moved the player off the jail space; the phase is
\* paying_debt and the landing is not due.
C40_MovedIntoDebt ==
    /\ MovedByRoll
    /\ state.turnPhase = "paying_debt"
    /\ ~CurPlayer(state).inJail
    /\ CurPlayer(state).position # 10
    /\ CurPlayer(state).balance = 30 - 50
    /\ state.pendingDebt # <<>>
====
